---- MODULE Spec2Model ----
(***************************************************************************)
(* Model of the ADA staking dashboard: the App-level wallet state          *)
(* (pages/_app.tsx), the Home page connect flow (pages/index.tsx), the     *)
(* Layout disconnect/navigation (components/Layout), the Dash page stake   *)
(* flow (pages/dash), the History page (pages/history) and the helpers of  *)
(* utils/wallet.ts.                                                        *)
(*                                                                         *)
(* Strings that the code parses (amounts) are sequences of one-character   *)
(* strings; JavaScript numbers are IEEE-754 doubles, modelled exactly as   *)
(* a 53-bit significand and a binary exponent over arbitrary-precision     *)
(* naturals (sequences of limbs), because TLC integers are 32 bits wide.   *)
(***************************************************************************)
EXTENDS Integers, Sequences, FiniteSets, Bags, TLC

----------------------------------------------------------------------------
(* Arbitrary-precision naturals: little-endian sequences of limbs in base  *)
(* LimbBase, without leading zero limbs; <<>> is zero.                     *)

LimbBits == 10

LimbBase == 1024

RECURSIVE Pow(_, _)
Pow(b, n) == IF n = 0 THEN 1 ELSE b * Pow(b, n - 1)

RECURSIVE BigNorm(_)
BigNorm(a) ==
  IF a = <<>> THEN <<>>
  ELSE IF a[Len(a)] = 0 THEN BigNorm(SubSeq(a, 1, Len(a) - 1))
  ELSE a

RECURSIVE BigOfSmall(_)
BigOfSmall(n) ==
  IF n = 0 THEN <<>> ELSE <<n % LimbBase>> \o BigOfSmall(n \div LimbBase)

\* a * c + carry, for a small multiplier c (c <= 2000000)
RECURSIVE BigMulSmall(_, _, _)
BigMulSmall(a, c, carry) ==
  IF a = <<>> THEN BigOfSmall(carry)
  ELSE LET t == Head(a) * c + carry
       IN  IF Tail(a) = <<>> /\ t = 0 THEN <<>>
           ELSE BigNorm(<<t % LimbBase>> \o BigMulSmall(Tail(a), c, t \div LimbBase))

RECURSIVE BigDivRec(_, _, _, _, _)
BigDivRec(a, d, i, rem, acc) ==
  IF i = 0 THEN [q |-> BigNorm(acc), r |-> rem]
  ELSE LET t == rem * LimbBase + a[i]
       IN  BigDivRec(a, d, i - 1, t % d, <<t \div d>> \o acc)

\* quotient and remainder of a by a small divisor d (d <= 2000000)
BigDivSmall(a, d) == BigDivRec(a, d, Len(a), 0, <<>>)

RECURSIVE SmallBits(_)
SmallBits(n) == IF n = 0 THEN 0 ELSE 1 + SmallBits(n \div 2)

\* number of significant bits of a
BigBits(a) ==
  IF a = <<>> THEN 0 ELSE LimbBits * (Len(a) - 1) + SmallBits(a[Len(a)])

RECURSIVE Zeros(_)
Zeros(n) == IF n = 0 THEN <<>> ELSE <<0>> \o Zeros(n - 1)

\* a * 2^s
BigShl(a, s) ==
  IF a = <<>> THEN <<>>
  ELSE Zeros(s \div LimbBits) \o BigMulSmall(a, Pow(2, s % LimbBits), 0)

\* floor(a / 2^s) and whether any one bit was shifted out
BigShr(a, s) ==
  LET nl   == s \div LimbBits
      low  == IF nl >= Len(a) THEN a ELSE SubSeq(a, 1, nl)
      high == IF nl >= Len(a) THEN <<>> ELSE SubSeq(a, nl + 1, Len(a))
      d    == BigDivSmall(high, Pow(2, s % LimbBits))
  IN  [q |-> d.q, sticky |-> (d.r # 0) \/ (\E i \in 1..Len(low) : low[i] # 0)]

RECURSIVE BigCmpRec(_, _, _)
BigCmpRec(a, b, i) ==
  IF i = 0 THEN 0
  ELSE IF a[i] < b[i] THEN -1
  ELSE IF a[i] > b[i] THEN 1
  ELSE BigCmpRec(a, b, i - 1)

\* -1, 0 or 1 as a < b, a = b, a > b
BigCmp(a, b) ==
  IF Len(a) < Len(b) THEN -1
  ELSE IF Len(a) > Len(b) THEN 1
  ELSE BigCmpRec(a, b, Len(a))

RECURSIVE BigToInt(_)
BigToInt(a) == IF a = <<>> THEN 0 ELSE Head(a) + LimbBase * BigToInt(Tail(a))

BigIsOdd(a) == a # <<>> /\ a[1] % 2 = 1

----------------------------------------------------------------------------
(* IEEE-754 binary64 values: NaN, or a sign and a magnitude that is zero   *)
(* or m * 2^e with 2^52 <= m < 2^53.  Round to nearest, ties to even.      *)

SigBits == 53

NaN == [kind |-> "nan"]

DblZero(neg) == [kind |-> "zero", neg |-> neg]

\* The double nearest to q * 2^e (+ a nonzero fraction below q's last bit
\* when sticky), q # 0.
RoundToDouble(neg, q, sticky, e) ==
  LET b    == BigBits(q)
      wide == IF b < SigBits + 1 THEN BigShl(q, SigBits + 1 - b) ELSE q
      e1   == IF b < SigBits + 1 THEN e - (SigBits + 1 - b) ELSE e
      drop == BigBits(wide) - (SigBits + 1)
      sh   == BigShr(wide, drop)
      st   == sticky \/ sh.sticky
      g    == BigIsOdd(sh.q)
      m0   == BigShr(sh.q, 1).q
      up   == g /\ (st \/ BigIsOdd(m0))
      m1   == IF up THEN BigMulSmall(m0, 1, 1) ELSE m0
      ovf  == BigBits(m1) > SigBits
  IN  [kind |-> "num", neg |-> neg,
       m |-> IF ovf THEN BigShr(m1, 1).q ELSE m1,
       e |-> e1 + drop + 1 + (IF ovf THEN 1 ELSE 0)]

ScaleShift == 120

MaxChunk == 6

\* floor(a / 10^k), dividing by at most 10^MaxChunk at a time
RECURSIVE BigDivPow10(_, _)
BigDivPow10(a, k) ==
  IF k = 0 THEN [q |-> a, sticky |-> FALSE]
  ELSE LET c    == IF k > MaxChunk THEN MaxChunk ELSE k
           d    == BigDivSmall(a, Pow(10, c))
           rest == BigDivPow10(d.q, k - c)
       IN  [q |-> rest.q, sticky |-> rest.sticky \/ d.r # 0]

RECURSIVE BigMulPow10(_, _)
BigMulPow10(a, k) ==
  IF k = 0 THEN a
  ELSE LET c == IF k > MaxChunk THEN MaxChunk ELSE k
       IN  BigMulPow10(BigMulSmall(a, Pow(10, c), 0), k - c)

\* The double nearest to the decimal n * 10^p (n a natural, p an integer).
DoubleOfDecimal(neg, n, p) ==
  IF n = <<>> THEN DblZero(neg)
  ELSE IF p >= 0 THEN RoundToDouble(neg, BigMulPow10(n, p), FALSE, 0)
  ELSE LET d == BigDivPow10(BigShl(n, ScaleShift), -p)
       IN  RoundToDouble(neg, d.q, d.sticky, -ScaleShift)

\* x * c for a double x and a small positive integer c
DblMulSmall(x, c) ==
  IF x.kind # "num" THEN x
  ELSE RoundToDouble(x.neg, BigMulSmall(x.m, c, 0), FALSE, x.e)

\* x / c for a double x and a small positive integer c
DblDivSmall(x, c) ==
  IF x.kind # "num" THEN x
  ELSE LET d == BigDivSmall(BigShl(x.m, ScaleShift), c)
       IN  RoundToDouble(x.neg, d.q, d.r # 0, x.e - ScaleShift)

\* the integer n for which n / c is nearest to a non-negative double x
\* below 2^31 / c, the larger one of two (Number.prototype.toFixed, step 10)
DblNearestMultiple(x, c) ==
  IF x.kind # "num" THEN 0
  ELSE LET y == BigMulSmall(x.m, c, 0)
       IN  IF x.e >= 0 THEN BigToInt(BigShl(y, x.e))
           ELSE BigToInt(BigShr(BigMulSmall(BigShr(y, -x.e - 1).q, 1, 1), 1).q)

\* x < c for a small natural c (false for NaN, as in JavaScript)
DblLessSmall(x, c) ==
  CASE x.kind = "nan"  -> FALSE
    [] x.kind = "zero" -> 0 < c
    [] x.kind = "num"  ->
         IF x.neg THEN TRUE
         ELSE IF x.e >= 0 THEN BigCmp(BigShl(x.m, x.e), BigOfSmall(c)) < 0
         ELSE BigCmp(x.m, BigShl(BigOfSmall(c), -x.e)) < 0

\* x <= c for a natural c given by its limbs (false for NaN)
DblLeqBig(x, c) ==
  CASE x.kind = "nan"  -> FALSE
    [] x.kind = "zero" -> TRUE
    [] x.kind = "num"  ->
         IF x.neg THEN TRUE
         ELSE IF x.e >= 0 THEN BigCmp(BigShl(x.m, x.e), c) <= 0
         ELSE BigCmp(x.m, BigShl(c, -x.e)) <= 0

\* x > 0 (false for NaN)
DblPositive(x) == x.kind = "num" /\ ~x.neg

\* Math.floor(x) of a non-negative double below 2^31, as an integer
DblFloor(x) ==
  IF x.kind # "num" THEN 0
  ELSE IF x.e >= 0 THEN BigToInt(BigShl(x.m, x.e))
  ELSE BigToInt(BigShr(x.m, -x.e).q)

----------------------------------------------------------------------------
(* JavaScript string-to-number conversion.  A string is a sequence of     *)
(* one-character strings.                                                  *)

Digits == {"0", "1", "2", "3", "4", "5", "6", "7", "8", "9"}

DigitVal(c) ==
  CASE c = "0" -> 0 [] c = "1" -> 1 [] c = "2" -> 2 [] c = "3" -> 3
    [] c = "4" -> 4 [] c = "5" -> 5 [] c = "6" -> 6 [] c = "7" -> 7
    [] c = "8" -> 8 [] c = "9" -> 9

WhiteSpace == {" "}

\* index of the first character at or after i that is not in set cs
RECURSIVE ScanWhile(_, _, _)
ScanWhile(s, i, cs) ==
  IF i <= Len(s) /\ s[i] \in cs THEN ScanWhile(s, i + 1, cs) ELSE i

RECURSIVE BigOfDigits(_, _)
BigOfDigits(ds, acc) ==
  IF ds = <<>> THEN acc
  ELSE BigOfDigits(Tail(ds), BigMulSmall(acc, 10, DigitVal(Head(ds))))

RECURSIVE IntOfDigits(_, _)
IntOfDigits(ds, acc) ==
  IF ds = <<>> THEN acc ELSE IntOfDigits(Tail(ds), acc * 10 + DigitVal(Head(ds)))

\* The longest prefix of s, from index i0, that is a decimal literal:
\* [sign] digits [. digits] [e [sign] digits], with at least one digit
\* before the exponent.  ok is false when there is none; stop is the index
\* after the literal.
ScanDecimal(s, i0) ==
  LET hasSign == i0 <= Len(s) /\ s[i0] \in {"-", "+"}
      neg     == hasSign /\ s[i0] = "-"
      i1      == IF hasSign THEN i0 + 1 ELSE i0
      i2      == ScanWhile(s, i1, Digits)
      hasDot  == i2 <= Len(s) /\ s[i2] = "."
      i3      == IF hasDot THEN ScanWhile(s, i2 + 1, Digits) ELSE i2
      intDs   == SubSeq(s, i1, i2 - 1)
      fracDs  == IF hasDot THEN SubSeq(s, i2 + 1, i3 - 1) ELSE <<>>
      hasE    == i3 <= Len(s) /\ s[i3] \in {"e", "E"}
      eSign   == hasE /\ i3 + 1 <= Len(s) /\ s[i3 + 1] \in {"-", "+"}
      j1      == IF eSign THEN i3 + 2 ELSE i3 + 1
      j2      == IF hasE THEN ScanWhile(s, j1, Digits) ELSE i3
      hasExp  == hasE /\ j2 > j1
      expAbs  == IF hasExp THEN IntOfDigits(SubSeq(s, j1, j2 - 1), 0) ELSE 0
      exp     == IF eSign /\ s[i3 + 1] = "-" THEN -expAbs ELSE expAbs
  IN  [ok   |-> Len(intDs) + Len(fracDs) > 0,
       neg  |-> neg,
       n    |-> BigOfDigits(intDs \o fracDs, <<>>),
       p    |-> exp - Len(fracDs),
       stop |-> IF hasExp THEN j2 ELSE i3]

\* parseFloat(s): leading white space is skipped, the longest decimal
\* literal prefix is converted, trailing characters are ignored.
parseFloat(s) ==
  LET d == ScanDecimal(s, ScanWhile(s, 1, WhiteSpace))
  IN  IF d.ok THEN DoubleOfDecimal(d.neg, d.n, d.p) ELSE NaN

isNaN(x) == x.kind = "nan"

\* Number(s): the whole string, white space trimmed, must be one decimal
\* literal; the empty string is 0.  (Hexadecimal, octal and binary literals
\* and Infinity are outside the modelled alphabet.)
Number(s) ==
  LET start == ScanWhile(s, 1, WhiteSpace)
      d     == ScanDecimal(s, start)
  IN  IF start > Len(s) THEN DblZero(FALSE)
      ELSE IF d.ok /\ ScanWhile(s, d.stop, WhiteSpace) > Len(s)
        THEN DoubleOfDecimal(d.neg, d.n, d.p)
      ELSE NaN

\* n.toString() for a natural number n
RECURSIVE NatToString(_)
NatToString(n) ==
  LET c == <<"0", "1", "2", "3", "4", "5", "6", "7", "8", "9">>[(n % 10) + 1]
  IN  IF n < 10 THEN <<c>> ELSE NatToString(n \div 10) \o <<c>>

----------------------------------------------------------------------------
(* The application state.                                                  *)

VARIABLES
  wallet,            \* MyApp: the held wallet handle, or NoWallet
  route,             \* the page shown by the router
  walletInfo,        \* sessionStorage entry 'walletInfo', or NoInfo
  handleCount,       \* wallet handles BrowserWallet.enable has returned
  isConnecting,      \* Home
  isRedirecting,     \* Home
  availableWallets,  \* Home
  selectedWallet,    \* Home
  homeError,         \* Home: error
  walletsReq,        \* Home: getAvailableWallets() is pending
  connects,          \* handleConnect calls in flight
  lastConnect,       \* outcome of the handleConnect that finished last
  balance,           \* Dash
  isLoadingBalance,  \* Dash
  stakePools,        \* Dash
  filteredPools,     \* Dash
  selectedPool,      \* Dash
  stakeAmount,       \* Dash
  poolSearch,        \* Dash
  isPoolListOpen,    \* Dash
  dashError,         \* Dash: error
  success,           \* Dash
  isStaking,         \* Dash
  balanceReqs,       \* getBalance() calls in flight
  poolsReq,          \* Dash: the pool directory request is pending
  stakes,            \* handleStake calls in flight (a bag)
  lastStake,         \* outcome of the handleStake that finished last
  transactions,      \* History
  isLoading,         \* History
  historyError,      \* History: error
  currentPage,       \* History
  totalTransactions, \* History
  paymentAddress,    \* History
  stakeAddress,      \* History
  delegateHistory,   \* History
  isDelegateHistoryLoading, \* History
  currentEpoch,      \* History, NoEpoch for null
  handleErrorLog,    \* History: what handleError logged last
  historyReqs,       \* requests of History in flight
  lastFetch,         \* History: the answer its fetchTransactions took last
  adaAmount,         \* isValidAdaAmount, adaToLovelace: the argument
  isValid,           \* isValidAdaAmount: whether it was called, and its result
  baseUnits,         \* what adaToLovelace(adaAmount) returned
  displayUnits       \* what lovelaceToAda(baseUnits) returned

appVars  == <<wallet, route, walletInfo, handleCount>>

homeVars == <<isConnecting, isRedirecting, availableWallets, selectedWallet,
              homeError, walletsReq>>

connVars == <<connects, lastConnect>>

dashVars == <<balance, isLoadingBalance, stakePools, filteredPools,
              selectedPool, stakeAmount, poolSearch, isPoolListOpen,
              dashError, success, isStaking, balanceReqs, poolsReq>>

stakeVars == <<stakes, lastStake>>

historyVars == <<transactions, isLoading, historyError, currentPage,
                 totalTransactions, paymentAddress, stakeAddress,
                 delegateHistory, isDelegateHistoryLoading, currentEpoch,
                 handleErrorLog, historyReqs, lastFetch>>

utilVars == <<adaAmount, isValid, baseUnits, displayUnits>>

vars == <<appVars, homeVars, connVars, dashVars, stakeVars, historyVars, utilVars>>

NoWallet == 0

\* isValidAdaAmount has not been called
NotCalled == [called |-> FALSE, value |-> FALSE]

\* a unit conversion has not been called
NoUnits == <<>>

NoInfo == [set |-> FALSE]

Null == "null"

NoPool == [id |-> Null]

NoSuccess == [pool |-> Null]

Undefined == "undefined"

None == [pc |-> "none", calls |-> <<>>, amount |-> <<>>]

\* bound: wallet handles BrowserWallet.enable returns in one run
MaxHandles == 2

\* bound: getBalance calls in flight at once
MaxBalanceReqs == 2

\* bound: handleStake calls in flight at once
MaxInFlight == 2

Handles == 1..MaxHandles

\* what the host environment can report as installed wallets
InstalledWallets == {<<>>, <<"nami">>, <<"nami", "eternl">>}

\* what a provider call can throw: an Error with a message, or another value
Thrown == {[isError |-> TRUE, message |-> "user declined"],
           [isError |-> FALSE, message |-> "code 2"]}

\* getNetworkId() answers, as JSON text
NetworkIds == {"1", Undefined}

UsedAddressLists == {<<>>, <<"addr1q">>}

RemoveAt(seq, i) == SubSeq(seq, 1, i - 1) \o SubSeq(seq, i + 1, Len(seq))

\* calls whose component instance has been unmounted
Orphaned(seq) == [i \in 1..Len(seq) |-> [seq[i] EXCEPT !.live = FALSE]]

Orphan(t) == [t EXCEPT !.live = FALSE]

OrphanedBag(bag) == BagOfAll(Orphan, bag)

----------------------------------------------------------------------------
(* Page mounts: a mounted page starts from its useState initial values     *)
(* and runs its mount effects.                                             *)

\* Home: useState initial values and the mount effect's
\* fetchAvailableWallets()
MountHome ==
  /\ isConnecting' = FALSE
  /\ isRedirecting' = FALSE
  /\ availableWallets' = <<>>
  /\ selectedWallet' = ""
  /\ homeError' = Null
  /\ walletsReq' = TRUE

\* leaving Home: the instance's state is discarded (the variables take
\* the useState initial values again) and a pending getAvailableWallets
\* resolves into an unmounted component
UnmountHome ==
  /\ isConnecting' = FALSE
  /\ isRedirecting' = FALSE
  /\ availableWallets' = <<>>
  /\ selectedWallet' = ""
  /\ homeError' = Null
  /\ walletsReq' = FALSE

\* Dash: useState initial values; the mount effect calls fetchBalance()
\* and fetchStakePools() when a wallet is held.  Requests of the previous
\* instance resolve into an unmounted component.
MountDash(w) ==
  /\ balance' = <<"0">>
  /\ isLoadingBalance' = TRUE
  /\ stakePools' = <<>>
  /\ filteredPools' = <<>>
  /\ selectedPool' = NoPool
  /\ stakeAmount' = <<>>
  /\ poolSearch' = <<>>
  /\ isPoolListOpen' = FALSE
  /\ dashError' = Null
  /\ success' = NoSuccess
  /\ isStaking' = FALSE
  /\ balanceReqs' = <<[wallet |-> w, live |-> TRUE]>>
  /\ poolsReq' = TRUE

\* mutant: the pool selection outlives the Dash instance
UnmountDash_KeepsSelection ==
  /\ balance' = <<"0">>
  /\ isLoadingBalance' = TRUE
  /\ stakePools' = <<>>
  /\ filteredPools' = <<>>
  /\ selectedPool' = selectedPool
  /\ stakeAmount' = <<>>
  /\ poolSearch' = <<>>
  /\ isPoolListOpen' = FALSE
  /\ dashError' = Null
  /\ success' = NoSuccess
  /\ isStaking' = FALSE
  /\ balanceReqs' = <<>>
  /\ poolsReq' = FALSE
  /\ stakes' = OrphanedBag(stakes)
  /\ UNCHANGED lastStake

\* leaving Dash: the instance's state is discarded (the variables take
\* the useState initial values again); its pending requests resolve into
\* an unmounted component and its handleStake calls go on
UnmountDash ==
  /\ balance' = <<"0">>
  /\ isLoadingBalance' = TRUE
  /\ stakePools' = <<>>
  /\ filteredPools' = <<>>
  /\ selectedPool' = NoPool
  /\ stakeAmount' = <<>>
  /\ poolSearch' = <<>>
  /\ isPoolListOpen' = FALSE
  /\ dashError' = Null
  /\ success' = NoSuccess
  /\ isStaking' = FALSE
  /\ balanceReqs' = <<>>
  /\ poolsReq' = FALSE
  /\ stakes' = OrphanedBag(stakes)
  /\ UNCHANGED lastStake

----------------------------------------------------------------------------
(* Home (pages/index.tsx) and connectWallet (utils/wallet.ts).             *)

\* fetchAvailableWallets resolves
WalletsResp ==
  /\ route = "home" /\ walletsReq
  /\ walletsReq' = FALSE
  /\ \/ \E ws \in InstalledWallets :
          /\ availableWallets' = ws
          /\ selectedWallet' = IF Len(ws) > 0 THEN ws[1] ELSE selectedWallet
          /\ UNCHANGED homeError
     \/ /\ homeError' = "Error fetching available wallets. Please refresh and try again."
        /\ UNCHANGED <<availableWallets, selectedWallet>>
  /\ UNCHANGED <<appVars, utilVars, historyVars, isConnecting, isRedirecting, connVars, dashVars, stakeVars>>

\* mutant: the button is not disabled while a connect is in flight
ConnectEnabled_NoBusy ==
  /\ route = "home" /\ ~isRedirecting /\ wallet = NoWallet
  /\ Len(availableWallets) > 0
  /\ selectedWallet # ""
  /\ Len(connects) < 2

\* the Connect button is rendered and enabled
ConnectEnabled ==
  /\ route = "home" /\ ~isRedirecting /\ wallet = NoWallet
  /\ Len(availableWallets) > 0
  /\ ~(isConnecting \/ selectedWallet = "")

\* the wallet <select> onChange
SelectWallet ==
  /\ route = "home" /\ ~isRedirecting /\ wallet = NoWallet
  /\ \E i \in 1..Len(availableWallets) :
       /\ availableWallets[i] # selectedWallet
       /\ selectedWallet' = availableWallets[i]
  /\ UNCHANGED <<appVars, utilVars, historyVars, isConnecting, isRedirecting, availableWallets,
                 homeError, walletsReq, connVars, dashVars, stakeVars>>

\* handleConnect up to BrowserWallet.enable(walletName)
ClickConnect ==
  /\ ConnectEnabled
  /\ isConnecting' = TRUE
  /\ homeError' = Null
  /\ connects' = Append(connects, [name |-> selectedWallet, pc |-> "enable",
                                   handle |-> NoWallet, networkId |-> Undefined,
                                   live |-> TRUE])
  /\ UNCHANGED <<appVars, utilVars, historyVars, isRedirecting, availableWallets, selectedWallet,
                 walletsReq, lastConnect, dashVars, stakeVars>>

\* connectWallet's catch: the message of the rethrown Error
ConnectFailure(thrown) ==
  IF thrown.isError THEN "Wallet connection failed: " \o thrown.message
  ELSE "An unknown error occurred while connecting to the wallet"

\* handleConnect's catch and finally after connectWallet has thrown
ConnectFailed(i, thrown) ==
  /\ connects' = RemoveAt(connects, i)
  /\ lastConnect' = [pc |-> "failed", handle |-> connects[i].handle,
                     message |-> ConnectFailure(thrown)]
  /\ IF connects[i].live
       THEN /\ homeError' = ConnectFailure(thrown)
            /\ isConnecting' = FALSE
       ELSE UNCHANGED <<homeError, isConnecting>>
  /\ UNCHANGED <<appVars, utilVars, historyVars, isRedirecting, availableWallets, selectedWallet,
                 walletsReq, dashVars, stakeVars>>

\* BrowserWallet.enable resolves with a handle, resolves empty, or throws
EnableResp ==
  \E i \in 1..Len(connects) :
    /\ connects[i].pc = "enable"
    /\ \/ /\ handleCount < MaxHandles
          /\ handleCount' = handleCount + 1
          /\ connects' = [connects EXCEPT ![i].pc = "settle",
                                          ![i].handle = handleCount + 1]
          /\ UNCHANGED <<utilVars, wallet, route, walletInfo, homeVars, lastConnect,
                         dashVars, stakeVars, historyVars>>
       \/ ConnectFailed(i, [isError |-> TRUE, message |->
            "Failed to enable wallet. User may have denied permission."])
       \/ \E t \in Thrown : ConnectFailed(i, t)

\* the 1000 ms settle delay elapses; getNetworkId() is called
SettleTimer ==
  \E i \in 1..Len(connects) :
    /\ connects[i].pc = "settle"
    /\ connects' = [connects EXCEPT ![i].pc = "getNetworkId"]
    /\ UNCHANGED <<appVars, utilVars, historyVars, homeVars, lastConnect, dashVars, stakeVars>>

\* getNetworkId resolves or throws; getUsedAddresses() is called
NetworkIdResp ==
  \E i \in 1..Len(connects) :
    /\ connects[i].pc = "getNetworkId"
    /\ \/ \E n \in NetworkIds :
            /\ connects' = [connects EXCEPT ![i].pc = "getUsedAddresses",
                                            ![i].networkId = n]
            /\ UNCHANGED <<appVars, utilVars, historyVars, homeVars, lastConnect, dashVars, stakeVars>>
       \/ \E t \in Thrown : ConnectFailed(i, t)

\* handleConnect after connectWallet has returned: setWallet,
\* sessionStorage.setItem, setIsRedirecting(true), router.push('/dash'),
\* finally setIsConnecting(false); Home is then replaced by Dash
ConnectSucceeded(i, address) ==
  /\ connects' = RemoveAt(connects, i)
  /\ lastConnect' = [pc |-> "connected", handle |-> connects[i].handle,
                     message |-> Null]
  /\ wallet' = connects[i].handle
  /\ walletInfo' = [set |-> TRUE, networkId |-> connects[i].networkId,
                    address |-> address]
  /\ route' = "dash"
  /\ UNCHANGED handleCount
  /\ UnmountHome
  /\ MountDash(connects[i].handle)
  /\ UNCHANGED <<stakeVars, historyVars, utilVars>>

\* mutant: connectWallet does not check the network id and the address
UsedAddressesResp_NoCheck ==
  \E i \in 1..Len(connects) :
    /\ connects[i].pc = "getUsedAddresses"
    /\ \/ \E as \in UsedAddressLists :
            ConnectSucceeded(i, IF Len(as) = 0 THEN Undefined ELSE as[1])
       \/ \E t \in Thrown : ConnectFailed(i, t)

\* getUsedAddresses resolves or throws; connectWallet checks what it got
UsedAddressesResp ==
  \E i \in 1..Len(connects) :
    /\ connects[i].pc = "getUsedAddresses"
    /\ \/ \E as \in UsedAddressLists :
            IF connects[i].networkId = Undefined \/ Len(as) = 0
              THEN ConnectFailed(i, [isError |-> TRUE, message |->
                     "Failed to retrieve wallet information"])
              ELSE ConnectSucceeded(i, as[1])
       \/ \E t \in Thrown : ConnectFailed(i, t)

----------------------------------------------------------------------------
(* Dash (pages/dash): balance, pool directory and the pool/amount form.    *)

UpperCase == <<"A", "B", "C", "D", "E", "F", "G", "H", "I", "J", "K", "L", "M",
               "N", "O", "P", "Q", "R", "S", "T", "U", "V", "W", "X", "Y", "Z">>

LowerCase == <<"a", "b", "c", "d", "e", "f", "g", "h", "i", "j", "k", "l", "m",
               "n", "o", "p", "q", "r", "s", "t", "u", "v", "w", "x", "y", "z">>

toLowerCase(s) ==
  [i \in 1..Len(s) |->
     IF \E k \in 1..26 : UpperCase[k] = s[i]
       THEN LowerCase[CHOOSE k \in 1..26 : UpperCase[k] = s[i]]
       ELSE s[i]]

\* s.includes(q)
includes(s, q) ==
  \E i \in 1..(Len(s) - Len(q) + 1) : SubSeq(s, i, i + Len(q) - 1) = q

\* mutant: the filter looks at the names only
filtered_NameOnly(pools, search) ==
  SelectSeq(pools, LAMBDA pool :
    includes(toLowerCase(pool.name), toLowerCase(search)))

\* the filter effect on [poolSearch, stakePools]
filtered(pools, search) ==
  SelectSeq(pools, LAMBDA pool :
    \/ includes(toLowerCase(pool.name), toLowerCase(search))
    \/ includes(toLowerCase(pool.ticker), toLowerCase(search)))

PoolCap == 1000

UnnamedPool == <<"U", "n", "n", "a", "m", "e", "d", " ", "P", "o", "o", "l">>

\* mutant: every entry of the directory is kept
MapPools_NoCap(data) ==
  [i \in 1..Len(data) |->
     [id     |-> data[i].pool_id,
      ticker |-> data[i].ticker,
      name   |-> IF data[i].name = <<>> THEN UnnamedPool ELSE data[i].name]]

\* data.data.slice(0, 1000).map(...); an absent ticker or name is the
\* empty string here, both being falsy operands of ||
MapPools(data) ==
  [i \in 1..(IF Len(data) < PoolCap THEN Len(data) ELSE PoolCap) |->
     [id     |-> data[i].pool_id,
      ticker |-> data[i].ticker,
      name   |-> IF data[i].name = <<>> THEN UnnamedPool ELSE data[i].name]]

\* what the pool directory can answer
DirectoryResponses ==
  { << [pool_id |-> "pool1", ticker |-> <<"P", "1">>, name |-> <<"P", "o", "o", "l", "A">>],
       [pool_id |-> "pool2", ticker |-> <<>>, name |-> <<>>] >> }

\* a directory of n pools; every second one has no ticker, every third
\* one no name
Directory(n) ==
  [i \in 1..n |->
     [pool_id |-> "pool" \o ToString(i) \o "of" \o ToString(n),
      ticker  |-> IF i % 2 = 0 THEN <<>> ELSE <<"T", "K">>,
      name    |-> IF i % 3 = 0 THEN <<>> ELSE <<"N", "a", "m", "e">>]]

\* directories around and above the cap of fetchStakePools
BulkDirectories == {Directory(999), Directory(1001), Directory(1500)}

\* what the directory answers once its first pool has retired
ChangedDirectories ==
  { << [pool_id |-> "pool2", ticker |-> <<>>, name |-> <<>>] >> }

\* how the directory request fails: fetch rejects, the answer is not ok,
\* its body is not JSON, or data.data is not an array
DirectoryFailures == {"rejected", "not ok", "not JSON", "not an array"}

PoolQueries == {<<>>, <<"p", "o", "o", "l", "a">>}

\* further texts typed into the pool input: of a ticker, in upper case,
\* of both names, of no pool
TypedQueries == {<<"p", "1">>, <<"U", "N">>, <<"O", "L">>, <<"x">>}

\* what getLovelace() can answer
LovelaceReplies ==
  {[ok |-> TRUE, lovelace |-> <<"2", "5", "0", "0", "0", "0", "0", "0">>],
   [ok |-> FALSE, lovelace |-> <<>>]}

LovelacePerAda == 1000000

FractionDigits == 6

RECURSIVE PadLeft(_, _)
PadLeft(s, n) == IF Len(s) >= n THEN s ELSE PadLeft(<<"0">> \o s, n)

\* (n / 1000000).toFixed(6) for a natural n below 2^31: the quotient is the
\* double nearest to n / 10^6, whose nearest 6-digit decimal is n / 10^6
toFixed6(n) ==
  NatToString(n \div LovelacePerAda) \o <<".">>
    \o PadLeft(NatToString(n % LovelacePerAda), FractionDigits)

\* parseInt(s) of a string of digits (NaN is not modelled: -1)
parseInt(s) ==
  LET stop == ScanWhile(s, 1, Digits)
  IN  IF stop = 1 THEN -1 ELSE IntOfDigits(SubSeq(s, 1, stop - 1), 0)

\* getBalance: the balance string, "0" when the query fails
getBalance(reply) ==
  IF reply.ok THEN toFixed6(parseInt(reply.lovelace)) ELSE <<"0">>

\* mutant: getBalance rethrows and fetchBalance's catch reports it
BalanceResp_Propagates ==
  \E i \in 1..Len(balanceReqs), reply \in LovelaceReplies :
    /\ balanceReqs' = RemoveAt(balanceReqs, i)
    /\ IF balanceReqs[i].live
         THEN /\ balance' = IF reply.ok THEN getBalance(reply) ELSE balance
              /\ dashError' = IF reply.ok THEN dashError
                               ELSE "Failed to fetch balance"
              /\ isLoadingBalance' = FALSE
         ELSE UNCHANGED <<balance, isLoadingBalance, dashError>>
    /\ UNCHANGED <<appVars, utilVars, historyVars, homeVars, connVars, stakePools,
                   filteredPools, selectedPool, stakeAmount, poolSearch,
                   isPoolListOpen, success, isStaking, poolsReq, stakeVars>>

\* fetchBalance after getBalance has resolved
BalanceResp ==
  \E i \in 1..Len(balanceReqs), reply \in LovelaceReplies :
    /\ balanceReqs' = RemoveAt(balanceReqs, i)
    /\ IF balanceReqs[i].live
         THEN /\ balance' = getBalance(reply)
              /\ isLoadingBalance' = FALSE
         ELSE UNCHANGED <<balance, isLoadingBalance>>
    /\ UNCHANGED <<appVars, utilVars, historyVars, homeVars, connVars, stakePools, filteredPools,
                   selectedPool, stakeAmount, poolSearch, isPoolListOpen,
                   dashError, success, isStaking, poolsReq, stakeVars>>

\* fetchStakePools after the directory has answered
PoolsRespFrom(responses) ==
  /\ route = "dash" /\ poolsReq
  /\ poolsReq' = FALSE
  /\ \/ \E data \in responses :
          /\ stakePools' = MapPools(data)
          /\ filteredPools' = filtered(MapPools(data), poolSearch)
          /\ UNCHANGED dashError
     \/ \E failure \in DirectoryFailures :
          /\ dashError' = "Failed to fetch stake pools"
          /\ UNCHANGED <<stakePools, filteredPools>>
  /\ UNCHANGED <<appVars, utilVars, historyVars, homeVars, connVars, balance, isLoadingBalance,
                 selectedPool, stakeAmount, poolSearch, isPoolListOpen,
                 success, isStaking, balanceReqs, stakeVars>>

PoolsResp == PoolsRespFrom(DirectoryResponses)

\* the directory answers with few pools or with more than the cap
BulkPoolsResp == PoolsRespFrom(DirectoryResponses \cup BulkDirectories)

\* the directory answers with its list or, later, with a changed one
ChangedPoolsResp == PoolsRespFrom(DirectoryResponses \cup ChangedDirectories)

\* the pool input's onChange
SearchPoolsFrom(queries) ==
  /\ route = "dash"
  /\ \E q \in queries :
       /\ q # poolSearch \/ selectedPool # NoPool
       /\ poolSearch' = q
       /\ filteredPools' = filtered(stakePools, q)
  /\ selectedPool' = NoPool
  /\ isPoolListOpen' = TRUE
  /\ UNCHANGED <<appVars, utilVars, historyVars, homeVars, connVars, balance, isLoadingBalance,
                 stakePools, stakeAmount, dashError, success, isStaking,
                 balanceReqs, poolsReq, stakeVars>>

SearchPools == SearchPoolsFrom(PoolQueries)

\* any of the texts is typed into the pool input
TypePoolSearch == SearchPoolsFrom(PoolQueries \cup TypedQueries)

\* the pool input's onClick (open = TRUE) and handleClickOutside on a
\* mousedown outside the pool list (open = FALSE)
SetPoolListOpen ==
  /\ route = "dash"
  /\ \E open \in BOOLEAN \ {isPoolListOpen} : isPoolListOpen' = open
  /\ UNCHANGED <<appVars, utilVars, historyVars, homeVars, connVars, balance, isLoadingBalance,
                 stakePools, filteredPools, selectedPool, stakeAmount,
                 poolSearch, dashError, success, isStaking, balanceReqs,
                 poolsReq, stakeVars>>

\* a click on an entry of the open pool list
SelectPool ==
  /\ route = "dash" /\ isPoolListOpen
  /\ \E i \in 1..Len(filteredPools) : selectedPool' = filteredPools[i]
  /\ isPoolListOpen' = FALSE
  /\ poolSearch' = <<>>
  /\ filteredPools' = filtered(stakePools, <<>>)
  /\ UNCHANGED <<appVars, utilVars, historyVars, homeVars, connVars, balance, isLoadingBalance,
                 stakePools, stakeAmount, dashError, success, isStaking,
                 balanceReqs, poolsReq, stakeVars>>

\* values of the amount <input type="number">: the empty string (nothing
\* or no valid number typed) or a valid floating-point number
StakeAmounts ==
  { <<>>, <<"4", ".", "9", "9", "9", "9", "9", "9">>, <<"8", ".", "2">> }

\* parseFloat(stakeAmount), for every value of the amount input
stakeAmountNumber == [a \in StakeAmounts |-> parseFloat(a)]

\* the amount input's onChange
SetStakeAmount ==
  /\ route = "dash"
  /\ \E a \in StakeAmounts \ {stakeAmount} : stakeAmount' = a
  /\ UNCHANGED <<appVars, utilVars, historyVars, homeVars, connVars, balance, isLoadingBalance,
                 stakePools, filteredPools, selectedPool, poolSearch,
                 isPoolListOpen, dashError, success, isStaking, balanceReqs,
                 poolsReq, stakeVars>>

----------------------------------------------------------------------------
(* handleStake (pages/dash), signMessage and sendFunds (utils/wallet.ts).  *)

PREDEFINED_ADDRESS ==
  "addr1qyu5zmg7l5td593d2ks5ae7uctuhzk8h4ex0x5v8mcjjzmvlqrf65ppyqkrm8zpmpl6w0qh9e8wyhwsteqh7ksfamevqe9rqlw"

MinStake == 5

\* transaction identifiers submitTx can return
TxHashes == {"tx_a"}

\* what a wallet call of the stake flow can throw
StakeThrown == {[isError |-> TRUE, message |-> "user declined"]}

\* the Stake button's disabled attribute
StakeDisabled ==
  isStaking \/ selectedPool = NoPool
    \/ DblLessSmall(stakeAmountNumber[stakeAmount], MinStake)

\* mutant: the validation without the isNaN test
ValidStake_NoNaNTest(amount) ==
  ~DblLessSmall(stakeAmountNumber[amount], MinStake)

\* handleStake's validation: false when it throws
ValidStake(amount) ==
  ~(isNaN(stakeAmountNumber[amount])
      \/ DblLessSmall(stakeAmountNumber[amount], MinStake))

BelowMinimum == "Stake amount must be at least 5 ADA"

\* adaToLovelace: Math.floor(Number(ada) * 1000000).toString()
adaToLovelace(ada) ==
  IF isNaN(Number(ada)) THEN <<"N", "a", "N">>
  ELSE NatToString(DblFloor(DblMulSmall(Number(ada), LovelacePerAda)))

\* adaToLovelace(stakeAmount), for every value of the amount input
toBaseUnits == [a \in StakeAmounts |-> adaToLovelace(a)]

\* mutant: the amount in ADA is sent as the amount in lovelace
lovelaceAmount_NoScale(amountInAda) ==
  NatToString(DblFloor(parseFloat(amountInAda)))

\* sendFunds: Math.floor(parseFloat(amountInAda) * 1000000).toString()
lovelaceAmount(amountInAda) ==
  NatToString(DblFloor(DblMulSmall(parseFloat(amountInAda), LovelacePerAda)))

\* lovelaceAmount.toString(), for every value of the amount input
lovelaceSent == [a \in StakeAmounts |-> lovelaceAmount(a)]

\* sendFunds: new Transaction({initiator}) and tx.sendLovelace(...)
NewTransaction(w, recipientAddress, amountInAda) ==
  [initiator |-> w,
   outputs   |-> <<[address |-> recipientAddress,
                    lovelace |-> lovelaceSent[amountInAda]]>>]

NoTx == [initiator |-> NoWallet, outputs |-> <<>>]

\* handleStake up to the first wallet call
handleStake ==
  /\ route = "dash" /\ ~StakeDisabled
  /\ wallet # NoWallet /\ selectedPool # NoPool
  /\ success' = NoSuccess
  /\ IF ValidStake(stakeAmount)
       THEN /\ BagCardinality(stakes) < MaxInFlight
            /\ isStaking' = TRUE
            /\ dashError' = Null
            /\ stakes' = stakes (+) SetToBag({
                 [wallet |-> wallet, pool |-> selectedPool, amount |-> stakeAmount,
                  live |-> TRUE, pc |-> "signData", calls |-> <<"signData">>,
                  message |-> selectedPool.name, tx |-> NoTx]})
            /\ UNCHANGED lastStake
       ELSE /\ isStaking' = FALSE
            /\ dashError' = BelowMinimum
            /\ lastStake' = [pc |-> "Failed", error |-> BelowMinimum,
                             cause |-> Null, amount |-> stakeAmount,
                             calls |-> <<>>, tx |-> NoTx, txHash |-> Null,
                             balanceRead |-> NoWallet]
            /\ UNCHANGED stakes
  /\ UNCHANGED <<appVars, utilVars, historyVars, homeVars, connVars, balance, isLoadingBalance,
                 stakePools, filteredPools, selectedPool, stakeAmount,
                 poolSearch, isPoolListOpen, balanceReqs, poolsReq>>

\* mutant: a failed submission clears the amount as a success does
StakeFailed_ClearsAmount(t, message, cause) ==
  /\ stakes' = stakes (-) SetToBag({t})
  /\ lastStake' = [pc |-> "Failed", error |-> message, cause |-> cause.message,
                   amount |-> t.amount, calls |-> t.calls, tx |-> t.tx,
                   txHash |-> Null, balanceRead |-> NoWallet]
  /\ IF t.live
       THEN /\ dashError' = message
            /\ stakeAmount' = <<>>
            /\ isStaking' = FALSE
       ELSE UNCHANGED <<dashError, stakeAmount, isStaking>>
  /\ UNCHANGED <<appVars, utilVars, historyVars, homeVars, connVars, balance, isLoadingBalance,
                 stakePools, filteredPools, selectedPool,
                 poolSearch, isPoolListOpen, success, balanceReqs, poolsReq>>

\* mutant: handleStake without the finally block
StakeFailed_NoFinally(t, message, cause) ==
  /\ stakes' = stakes (-) SetToBag({t})
  /\ lastStake' = [pc |-> "Failed", error |-> message, cause |-> cause.message,
                   amount |-> t.amount, calls |-> t.calls, tx |-> t.tx,
                   txHash |-> Null, balanceRead |-> NoWallet]
  /\ IF t.live
       THEN /\ dashError' = message
            /\ UNCHANGED isStaking
       ELSE UNCHANGED <<dashError, isStaking>>
  /\ UNCHANGED <<appVars, utilVars, historyVars, homeVars, connVars, balance, isLoadingBalance,
                 stakePools, filteredPools, selectedPool, stakeAmount,
                 poolSearch, isPoolListOpen, success, balanceReqs, poolsReq>>

\* handleStake's catch and finally after signMessage or sendFunds has
\* thrown Error(message); cause is what the provider threw
StakeFailed(t, message, cause) ==
  /\ stakes' = stakes (-) SetToBag({t})
  /\ lastStake' = [pc |-> "Failed", error |-> message, cause |-> cause.message,
                   amount |-> t.amount, calls |-> t.calls, tx |-> t.tx,
                   txHash |-> Null, balanceRead |-> NoWallet]
  /\ IF t.live
       THEN /\ dashError' = message
            /\ isStaking' = FALSE
       ELSE UNCHANGED <<dashError, isStaking>>
  /\ UNCHANGED <<appVars, utilVars, historyVars, homeVars, connVars, balance, isLoadingBalance,
                 stakePools, filteredPools, selectedPool, stakeAmount,
                 poolSearch, isPoolListOpen, success, balanceReqs, poolsReq>>

\* mutant: handleStake does not call fetchBalance() after the transaction
StakeSucceeded_NoRefetch(t, txHash) ==
  /\ stakes' = stakes (-) SetToBag({t})
  /\ lastStake' = [pc |-> "Succeeded", error |-> Null, cause |-> Null,
                   amount |-> t.amount, calls |-> t.calls, tx |-> t.tx,
                   txHash |-> txHash, balanceRead |-> NoWallet]
  /\ IF t.live
       THEN /\ success' = [pool |-> t.pool.name, amount |-> t.amount]
            /\ stakeAmount' = <<>>
            /\ isStaking' = FALSE
       ELSE UNCHANGED <<success, stakeAmount, isStaking>>
  /\ UNCHANGED <<appVars, utilVars, historyVars, homeVars, connVars, balance, stakePools,
                 filteredPools, selectedPool, poolSearch, isPoolListOpen,
                 dashError, poolsReq, isLoadingBalance, balanceReqs>>

\* handleStake after sendFunds has returned txHash: setSuccess,
\* setStakeAmount(''), fetchBalance(), finally setIsStaking(false).  The
\* fetchBalance of the handler's closure calls getBalance on the wallet
\* the handler started with (balanceRead); when its Dash instance is
\* unmounted the answer goes nowhere and the request is not kept.
StakeSucceeded(t, txHash) ==
  /\ stakes' = stakes (-) SetToBag({t})
  /\ lastStake' = [pc |-> "Succeeded", error |-> Null, cause |-> Null,
                   amount |-> t.amount, calls |-> t.calls, tx |-> t.tx,
                   txHash |-> txHash, balanceRead |-> t.wallet]
  /\ IF t.live
       THEN /\ Len(balanceReqs) < MaxBalanceReqs
            /\ success' = [pool |-> t.pool.name, amount |-> t.amount]
            /\ stakeAmount' = <<>>
            /\ isLoadingBalance' = TRUE
            /\ balanceReqs' = Append(balanceReqs,
                                     [wallet |-> t.wallet, live |-> TRUE])
            /\ isStaking' = FALSE
       ELSE UNCHANGED <<success, stakeAmount, isLoadingBalance, balanceReqs, isStaking>>
  /\ UNCHANGED <<appVars, utilVars, historyVars, homeVars, connVars, balance, stakePools,
                 filteredPools, selectedPool, poolSearch, isPoolListOpen,
                 dashError, poolsReq>>

\* a wallet call of handleStake t goes on to the next call of the flow
StakeStep(t, next, tx) ==
  /\ stakes' = (stakes (-) SetToBag({t})) (+) SetToBag({
                 [t EXCEPT !.pc = next, !.calls = Append(@, next), !.tx = tx]})
  /\ UNCHANGED <<appVars, utilVars, historyVars, homeVars, connVars, dashVars, lastStake>>

\* mutant: sendFunds signs without awaiting tx.build()
SignDataResp_NoBuild ==
  \E t \in BagToSet(stakes) :
    /\ t.pc = "signData"
    /\ \/ StakeStep(t, "signTx",
                    NewTransaction(t.wallet, PREDEFINED_ADDRESS, t.amount))
       \/ \E thrown \in StakeThrown : StakeFailed(t, "Failed to sign message", thrown)

\* mutant: signMessage rethrows what the provider threw
SignDataResp_Rethrow ==
  \E t \in BagToSet(stakes) :
    /\ t.pc = "signData"
    /\ \/ StakeStep(t, "build",
                    NewTransaction(t.wallet, PREDEFINED_ADDRESS, t.amount))
       \/ \E thrown \in StakeThrown : StakeFailed(t, thrown.message, thrown)

\* signData resolves or throws; on success sendFunds builds the transaction
SignDataResp ==
  \E t \in BagToSet(stakes) :
    /\ t.pc = "signData"
    /\ \/ StakeStep(t, "build",
                    NewTransaction(t.wallet, PREDEFINED_ADDRESS, t.amount))
       \/ \E thrown \in StakeThrown : StakeFailed(t, "Failed to sign message", thrown)

\* mutant: sendFunds rethrows what the provider threw
BuildResp_Rethrow ==
  \E t \in BagToSet(stakes) :
    /\ t.pc = "build"
    /\ \/ StakeStep(t, "signTx", t.tx)
       \/ \E thrown \in StakeThrown : StakeFailed(t, thrown.message, thrown)

\* tx.build() resolves or throws; on success signTx is called
BuildResp ==
  \E t \in BagToSet(stakes) :
    /\ t.pc = "build"
    /\ \/ StakeStep(t, "signTx", t.tx)
       \/ \E thrown \in StakeThrown : StakeFailed(t, "Failed to stake funds", thrown)

\* signTx resolves or throws; on success submitTx is called
SignTxResp ==
  \E t \in BagToSet(stakes) :
    /\ t.pc = "signTx"
    /\ \/ StakeStep(t, "submitTx", t.tx)
       \/ \E thrown \in StakeThrown : StakeFailed(t, "Failed to stake funds", thrown)

\* submitTx resolves with the transaction hash, or throws
SubmitTxResp ==
  \E t \in BagToSet(stakes) :
    /\ t.pc = "submitTx"
    /\ \/ \E h \in TxHashes : StakeSucceeded(t, h)
       \/ \E thrown \in StakeThrown : StakeFailed(t, "Failed to stake funds", thrown)

----------------------------------------------------------------------------
(* History (pages/history): addresses, epoch, transactions, delegations.   *)

ITEMS_PER_PAGE == 10

\* currentEpoch before fetchCurrentEpoch has answered (null)
NoEpoch == 0

\* what getRewardAddresses() can answer
RewardAddressLists == {<<>>, <<"stake1u">>}

\* what /epochs/latest can answer
EpochResponses == {[ok |-> TRUE, epoch |-> 500], [ok |-> FALSE, epoch |-> NoEpoch]}

\* what /addresses/{address}/transactions can answer (status "0": fetch
\* rejects); total is the X-Pagination-Total-Count header, <<>> when
\* absent; json: the body parses as JSON
ListResponses ==
  {[status |-> "200", statusText |-> "OK", json |-> TRUE, total |-> <<"1", "1">>,
    data |-> <<[tx_hash |-> "tx1", block_height |-> 100, tx_index |-> 0]>>],
   [status |-> "200", statusText |-> "OK", json |-> TRUE, total |-> <<>>,
    data |-> <<>>],
   [status |-> "404", statusText |-> "Not Found", json |-> TRUE, total |-> <<>>,
    data |-> <<>>],
   [status |-> "500", statusText |-> "Internal Server Error", json |-> TRUE,
    total |-> <<>>, data |-> <<>>],
   [status |-> "0", statusText |-> "", json |-> FALSE, total |-> <<>>,
    data |-> <<>>]}

\* n transaction summaries of a listing
Summaries(n) ==
  [i \in 1..n |-> [tx_hash |-> "tx" \o ToString(i), block_height |-> 100 + i,
                   tx_index |-> i % 2]]

\* further answers of /addresses/{address}/transactions: a full page of 41
\* transactions, the last page of 23, a page past the last one, and a
\* gateway's answer whose body is an HTML page
PagedResponses ==
  {[status |-> "200", statusText |-> "OK", json |-> TRUE, total |-> <<"4", "1">>,
    data |-> Summaries(10)],
   [status |-> "200", statusText |-> "OK", json |-> TRUE, total |-> <<"2", "3">>,
    data |-> Summaries(3)],
   [status |-> "200", statusText |-> "OK", json |-> TRUE, total |-> <<"2", "3">>,
    data |-> <<>>],
   [status |-> "502", statusText |-> "Bad Gateway", json |-> FALSE,
    total |-> <<>>, data |-> <<>>]}

\* what /txs/{hash} can answer
DetailResponses ==
  {[ok |-> TRUE, block_time |-> 1600000,
    quantity |-> <<"8", "2", "0", "0", "0", "0", "0">>],
   [ok |-> FALSE, block_time |-> 0, quantity |-> <<>>]}

\* what /accounts/{stakeAddress}/delegations can answer
DelegationResponses ==
  {[status |-> "200", statusText |-> "OK",
    data |-> <<[tx_hash |-> "dtx1", active_epoch |-> 499, pool_id |-> "pool1"]>>],
   [status |-> "500", statusText |-> "Internal Server Error", data |-> <<>>]}

FetchRejected == [isError |-> TRUE, message |-> "Failed to fetch"]

\* the SyntaxError response.json() throws on a body that is not JSON
NotJSON == [isError |-> TRUE, message |-> "Unexpected token < in JSON at position 0"]

\* no listing of this History page has been answered yet
NoFetch == [stage |-> "none", page |-> 0, status |-> "", json |-> FALSE,
            total |-> <<>>, count |-> 0, ok |-> FALSE]

\* the answer request r of the mounted page's fetchTransactions has taken
\* at a stage: the listing's status, body and header, and whether the
\* details arrived
Answered(r, stage, status, json, total, count, ok) ==
  [stage |-> stage, page |-> r.page, status |-> status, json |-> json,
   total |-> total, count |-> count, ok |-> ok]

\* new Error(`API request failed: ${response.status} ${response.statusText}`)
RequestFailed(resp) ==
  [isError |-> TRUE,
   message |-> "API request failed: " \o resp.status \o " " \o resp.statusText]

\* a request of the History page in flight; awaited: the summaries (by
\* index) whose detail request has not answered yet
HistoryReq(op, pc, by) ==
  [op |-> op, pc |-> pc, by |-> by, page |-> 0, data |-> <<>>, total |-> <<>>,
   epoch |-> NoEpoch, live |-> TRUE, awaited |-> {}]

\* requests of an unmounted instance that go on to make a call
CallsAhead(r) == r.pc \in {"getUsedAddresses", "list"}

\* History: useState initial values; the mount effect calls
\* fetchAddresses() and fetchCurrentEpoch() when a wallet is held
MountHistory ==
  /\ transactions' = <<>>
  /\ isLoading' = TRUE
  /\ historyError' = Null
  /\ currentPage' = 1
  /\ totalTransactions' = 0
  /\ paymentAddress' = Null
  /\ stakeAddress' = Null
  /\ delegateHistory' = <<>>
  /\ isDelegateHistoryLoading' = TRUE
  /\ currentEpoch' = NoEpoch
  /\ handleErrorLog' = Null
  /\ historyReqs' = historyReqs \cup
       {HistoryReq("fetchAddresses", "getUsedAddresses", "effect"),
        HistoryReq("fetchCurrentEpoch", "fetch", "effect")}
  /\ lastFetch' = NoFetch

\* leaving History: the instance's state is discarded (the variables take
\* the useState initial values again); its requests resolve into an
\* unmounted component, and those that go on to make a call are kept
UnmountHistory ==
  /\ transactions' = <<>>
  /\ isLoading' = TRUE
  /\ historyError' = Null
  /\ currentPage' = 1
  /\ totalTransactions' = 0
  /\ paymentAddress' = Null
  /\ stakeAddress' = Null
  /\ delegateHistory' = <<>>
  /\ isDelegateHistoryLoading' = TRUE
  /\ currentEpoch' = NoEpoch
  /\ handleErrorLog' = Null
  /\ historyReqs' = {Orphan(r) : r \in {q \in historyReqs : CallsAhead(q)}}
  /\ lastFetch' = NoFetch

\* handleError(message, error): console.error and setError
handleError(message, error) ==
  /\ handleErrorLog' = message
  /\ historyError' = IF error.isError THEN error.message
                     ELSE "An unknown error occurred"

\* fetchTransactions up to the listing request, as invoked by `by`; reqs
\* are the other requests in flight
fetchTransactions(reqs, by, address, page) ==
  IF address = Null
    THEN /\ handleError("Error fetching transactions",
                        [isError |-> TRUE, message |-> "No payment address found"])
         /\ isLoading' = FALSE
         /\ historyReqs' = reqs
    ELSE /\ isLoading' = TRUE
         /\ historyError' = Null
         /\ UNCHANGED handleErrorLog
         /\ historyReqs' = reqs \cup
              {[HistoryReq("fetchTransactions", "list", by) EXCEPT !.page = page]}

\* fetchAddresses' catch
AddressesFailed(r, error) ==
  /\ historyReqs' = historyReqs \ {r}
  /\ IF r.live
       THEN handleError("Failed to retrieve wallet addresses", error)
       ELSE UNCHANGED <<historyError, handleErrorLog>>
  /\ UNCHANGED <<appVars, utilVars, homeVars, connVars, dashVars, stakeVars, lastFetch, transactions,
                 isLoading, currentPage, totalTransactions, paymentAddress,
                 stakeAddress, delegateHistory, isDelegateHistoryLoading,
                 currentEpoch>>

\* mutant: fetchAddresses takes usedAddresses[0] of an empty list
HistoryUsedAddressesResp_NoCheck ==
  \E r \in historyReqs :
    /\ r.op = "fetchAddresses" /\ r.pc = "getUsedAddresses"
    /\ \/ \E usedAddresses \in UsedAddressLists :
            IF Len(usedAddresses) = 0
              THEN /\ paymentAddress' = IF r.live THEN Undefined ELSE paymentAddress
                   /\ historyReqs' = (historyReqs \ {r}) \cup
                        (IF r.live THEN {[r EXCEPT !.pc = "getRewardAddresses"]}
                         ELSE {})
                   /\ UNCHANGED <<appVars, utilVars, homeVars, connVars, dashVars, stakeVars, lastFetch,
                                  transactions, isLoading, historyError,
                                  currentPage, totalTransactions,
                                  stakeAddress, delegateHistory,
                                  isDelegateHistoryLoading, currentEpoch,
                                  handleErrorLog>>
            ELSE IF r.live
              THEN /\ paymentAddress' = usedAddresses[1]
                   /\ fetchTransactions(
                        (historyReqs \ {r}) \cup {[r EXCEPT !.pc = "getRewardAddresses"]},
                        "effect", usedAddresses[1], currentPage)
                   /\ UNCHANGED <<appVars, utilVars, homeVars, connVars, dashVars, stakeVars, lastFetch,
                                  transactions, currentPage, totalTransactions,
                                  stakeAddress, delegateHistory,
                                  isDelegateHistoryLoading, currentEpoch>>
              ELSE /\ historyReqs' = historyReqs \ {r}
                   /\ UNCHANGED <<appVars, utilVars, homeVars, connVars, dashVars, stakeVars, lastFetch,
                                  transactions, isLoading, historyError,
                                  currentPage, totalTransactions, paymentAddress,
                                  stakeAddress, delegateHistory,
                                  isDelegateHistoryLoading, currentEpoch,
                                  handleErrorLog>>
       \/ \E thrown \in Thrown : AddressesFailed(r, thrown)

\* fetchAddresses after getUsedAddresses has resolved or thrown: on success
\* setPaymentAddress, getRewardAddresses() is called, and the effect on
\* [paymentAddress, currentPage] calls fetchTransactions()
HistoryUsedAddressesResp ==
  \E r \in historyReqs :
    /\ r.op = "fetchAddresses" /\ r.pc = "getUsedAddresses"
    /\ \/ \E usedAddresses \in UsedAddressLists :
            IF Len(usedAddresses) = 0
              THEN AddressesFailed(r, [isError |-> TRUE,
                                       message |-> "No used addresses found"])
            ELSE IF r.live
              THEN /\ paymentAddress' = usedAddresses[1]
                   /\ fetchTransactions(
                        (historyReqs \ {r}) \cup {[r EXCEPT !.pc = "getRewardAddresses"]},
                        "effect", usedAddresses[1], currentPage)
                   /\ UNCHANGED <<appVars, utilVars, homeVars, connVars, dashVars, stakeVars, lastFetch,
                                  transactions, currentPage, totalTransactions,
                                  stakeAddress, delegateHistory,
                                  isDelegateHistoryLoading, currentEpoch>>
              ELSE /\ historyReqs' = historyReqs \ {r}
                   /\ UNCHANGED <<appVars, utilVars, homeVars, connVars, dashVars, stakeVars, lastFetch,
                                  transactions, isLoading, historyError,
                                  currentPage, totalTransactions, paymentAddress,
                                  stakeAddress, delegateHistory,
                                  isDelegateHistoryLoading, currentEpoch,
                                  handleErrorLog>>
       \/ \E thrown \in Thrown : AddressesFailed(r, thrown)

\* fetchAddresses after getRewardAddresses has resolved or thrown: on
\* success setStakeAddress, and the effect on [stakeAddress] calls
\* fetchDelegateHistory() up to its request
RewardAddressesResp ==
  \E r \in historyReqs :
    /\ r.op = "fetchAddresses" /\ r.pc = "getRewardAddresses" /\ r.live
    /\ \/ \E stakeAddresses \in RewardAddressLists :
            IF Len(stakeAddresses) = 0
              THEN AddressesFailed(r, [isError |-> TRUE,
                                       message |-> "No stake addresses found"])
              ELSE /\ stakeAddress' = stakeAddresses[1]
                   /\ isDelegateHistoryLoading' = TRUE
                   /\ historyError' = Null
                   /\ historyReqs' = (historyReqs \ {r}) \cup
                        {[HistoryReq("fetchDelegateHistory", "fetch", "effect")
                            EXCEPT !.epoch = currentEpoch]}
                   /\ UNCHANGED <<appVars, utilVars, homeVars, connVars, dashVars, stakeVars, lastFetch,
                                  transactions, isLoading, currentPage,
                                  totalTransactions, paymentAddress,
                                  delegateHistory, currentEpoch, handleErrorLog>>
       \/ \E thrown \in Thrown : AddressesFailed(r, thrown)

\* fetchCurrentEpoch after /epochs/latest has answered
EpochResp ==
  \E r \in historyReqs :
    /\ r.op = "fetchCurrentEpoch" /\ r.live
    /\ historyReqs' = historyReqs \ {r}
    /\ \E resp \in EpochResponses :
         currentEpoch' = IF resp.ok THEN resp.epoch ELSE currentEpoch
    /\ UNCHANGED <<appVars, utilVars, homeVars, connVars, dashVars, stakeVars, lastFetch, transactions,
                   isLoading, historyError, currentPage, totalTransactions,
                   paymentAddress, stakeAddress, delegateHistory,
                   isDelegateHistoryLoading, handleErrorLog>>

\* mutant: fetchTransactions' catch calls fetchTransactions again
TransactionsFailed_Retry(r, error) ==
  /\ IF r.live
       THEN /\ isLoading' = TRUE
            /\ historyError' = Null
            /\ handleErrorLog' = "Error fetching transactions"
            /\ historyReqs' = (historyReqs \ {r}) \cup
                 {[HistoryReq("fetchTransactions", "list", "catch")
                     EXCEPT !.page = r.page]}
       ELSE /\ historyReqs' = historyReqs \ {r}
            /\ UNCHANGED <<historyError, handleErrorLog, isLoading>>
  /\ UNCHANGED <<appVars, utilVars, homeVars, connVars, dashVars, stakeVars, transactions,
                 currentPage, totalTransactions, paymentAddress, stakeAddress,
                 delegateHistory, isDelegateHistoryLoading, currentEpoch>>

\* fetchTransactions' catch and finally
TransactionsFailed(r, error) ==
  /\ historyReqs' = historyReqs \ {r}
  /\ IF r.live
       THEN /\ handleError("Error fetching transactions", error)
            /\ isLoading' = FALSE
       ELSE UNCHANGED <<historyError, handleErrorLog, isLoading>>
  /\ UNCHANGED <<appVars, utilVars, homeVars, connVars, dashVars, stakeVars, transactions,
                 currentPage, totalTransactions, paymentAddress, stakeAddress,
                 delegateHistory, isDelegateHistoryLoading, currentEpoch>>

\* new Date(block_time * 1000).toLocaleString(): the text depends on the
\* host's locale; it is kept as the instant it renders
toLocaleString(ms) == [localeStringOf |-> ms]

\* the TransactionItem of a summary and its detail
TransactionItem(tx, txDetails) ==
  [txHash |-> tx.tx_hash,
   block  |-> NatToString(tx.block_height),
   time   |-> toLocaleString(txDetails.block_time * 1000),
   amount |-> toFixed6(parseInt(txDetails.quantity)),
   status |-> IF tx.tx_index = 0 THEN "Outgoing" ELSE "Incoming"]

\* parseInt(response.headers.get('X-Pagination-Total-Count') || '0', 10)
TotalCount(header) == parseInt(IF header = <<>> THEN <<"0">> ELSE header)

\* fetchTransactions' setTransactions, setTotalTransactions and finally
TransactionsFetched(r, total, items) ==
  /\ historyReqs' = historyReqs \ {r}
  /\ IF r.live
       THEN /\ transactions' = items
            /\ totalTransactions' = TotalCount(total)
            /\ isLoading' = FALSE
       ELSE UNCHANGED <<transactions, totalTransactions, isLoading>>
  /\ UNCHANGED <<appVars, utilVars, homeVars, connVars, dashVars, stakeVars, historyError,
                 currentPage, paymentAddress, stakeAddress, delegateHistory,
                 isDelegateHistoryLoading, currentEpoch, handleErrorLog>>

\* mutant: a 404 listing is thrown like any other answer that is not ok
NotFound_Throws(r) ==
  TransactionsFailed(r, [isError |-> TRUE,
                         message |-> "API request failed: 404 Not Found"])

\* fetchTransactions on a 404 listing: no transactions, and return
NotFound(r) ==
  /\ historyReqs' = historyReqs \ {r}
  /\ IF r.live
       THEN /\ transactions' = <<>>
            /\ totalTransactions' = 0
            /\ isLoading' = FALSE
       ELSE UNCHANGED <<transactions, totalTransactions, isLoading>>
  /\ UNCHANGED <<appVars, utilVars, homeVars, connVars, dashVars, stakeVars, historyError,
                 currentPage, paymentAddress, stakeAddress, delegateHistory,
                 isDelegateHistoryLoading, currentEpoch, handleErrorLog>>

\* fetchTransactions after the listing request has answered or failed: 404
\* is an empty history; any other answer that is not ok has its body read
\* as JSON and is thrown with its status; on success one detail request
\* per summary is made
ListRespFrom(responses) ==
  \E r \in historyReqs :
    /\ r.op = "fetchTransactions" /\ r.pc = "list"
    /\ \E resp \in responses :
         /\ lastFetch' = IF r.live
                            THEN Answered(r, "list", resp.status, resp.json,
                                          resp.total, Len(resp.data), TRUE)
                            ELSE lastFetch
         /\ IF resp.status = "0" THEN TransactionsFailed(r, FetchRejected)
            ELSE IF resp.status = "404" THEN NotFound(r)
            ELSE IF ~resp.json THEN TransactionsFailed(r, NotJSON)
            ELSE IF resp.status # "200" THEN TransactionsFailed(r, RequestFailed(resp))
            ELSE IF Len(resp.data) = 0
              THEN TransactionsFetched(r, resp.total, <<>>)
            ELSE /\ historyReqs' = (historyReqs \ {r}) \cup
                      (IF r.live
                         THEN {[r EXCEPT !.pc = "details", !.data = resp.data,
                                         !.total = resp.total,
                                         !.awaited = 1..Len(resp.data)]}
                         ELSE {})
                 /\ UNCHANGED <<appVars, utilVars, homeVars, connVars, dashVars, stakeVars,
                                transactions, isLoading, historyError, currentPage,
                                totalTransactions, paymentAddress, stakeAddress,
                                delegateHistory, isDelegateHistoryLoading,
                                currentEpoch, handleErrorLog>>

ListResp == ListRespFrom(ListResponses)

\* the listing answered by any of the indexer's or a gateway's answers
PagedListResp == ListRespFrom(ListResponses \cup PagedResponses)

\* fetchTransactions after Promise.all over the detail requests has
\* resolved (every detail has answered) or rejected (one has failed)
DetailsResp ==
  \E r \in historyReqs :
    /\ r.op = "fetchTransactions" /\ r.pc = "details"
    /\ \E txDetails \in DetailResponses :
         /\ lastFetch' = Answered(r, "details", "200", TRUE, r.total,
                                  Len(r.data), txDetails.ok)
         /\ IF txDetails.ok
              THEN TransactionsFetched(r, r.total,
                     [i \in 1..Len(r.data) |-> TransactionItem(r.data[i], txDetails)])
              ELSE TransactionsFailed(r, FetchRejected)

\* mutant: each detail that answers publishes the items answered so far
DetailResp_Partial ==
  \E r \in historyReqs :
    /\ r.op = "fetchTransactions" /\ r.pc = "details"
    /\ \E i \in r.awaited, txDetails \in DetailResponses :
         /\ lastFetch' = Answered(r, "details", "200", TRUE, r.total,
                                  Len(r.data), txDetails.ok)
         /\ IF ~txDetails.ok THEN TransactionsFailed(r, FetchRejected)
            ELSE IF r.awaited = {i}
              THEN TransactionsFetched(r, r.total,
                     [k \in 1..Len(r.data) |-> TransactionItem(r.data[k], txDetails)])
            ELSE /\ historyReqs' = (historyReqs \ {r}) \cup
                                     {[r EXCEPT !.awaited = @ \ {i}]}
                 /\ transactions' =
                      SelectSeq([k \in 1..Len(r.data) |->
                                   TransactionItem(r.data[k], txDetails)],
                                LAMBDA item : \E k \in 1..Len(r.data) :
                                  /\ k \notin r.awaited \ {i}
                                  /\ item.txHash = r.data[k].tx_hash)
                 /\ UNCHANGED <<appVars, utilVars, homeVars, connVars, dashVars, stakeVars,
                                isLoading, historyError, currentPage,
                                totalTransactions, paymentAddress, stakeAddress,
                                delegateHistory, isDelegateHistoryLoading,
                                currentEpoch, handleErrorLog>>

\* one detail request of a page answers or fails.  Promise.all rejects with
\* the first failure (what the other requests answer is then dropped) and
\* resolves with the last answer; until then nothing is set.
DetailResp ==
  \E r \in historyReqs :
    /\ r.op = "fetchTransactions" /\ r.pc = "details"
    /\ \E i \in r.awaited, txDetails \in DetailResponses :
         /\ lastFetch' = Answered(r, "details", "200", TRUE, r.total,
                                  Len(r.data), txDetails.ok)
         /\ IF ~txDetails.ok THEN TransactionsFailed(r, FetchRejected)
            ELSE IF r.awaited = {i}
              THEN TransactionsFetched(r, r.total,
                     [k \in 1..Len(r.data) |-> TransactionItem(r.data[k], txDetails)])
            ELSE /\ historyReqs' = (historyReqs \ {r}) \cup
                                     {[r EXCEPT !.awaited = @ \ {i}]}
                 /\ UNCHANGED <<appVars, utilVars, homeVars, connVars, dashVars, stakeVars,
                                transactions, isLoading, historyError, currentPage,
                                totalTransactions, paymentAddress, stakeAddress,
                                delegateHistory, isDelegateHistoryLoading,
                                currentEpoch, handleErrorLog>>

\* `Epoch ${active_epoch}${currentEpoch ? ` (Current: ${currentEpoch})` : ''}`
EpochText(active_epoch, epoch) ==
  <<"Epoch ">> \o NatToString(active_epoch)
    \o (IF epoch # NoEpoch
          THEN <<" (Current: ">> \o NatToString(epoch) \o <<")">>
          ELSE <<>>)

\* fetchDelegateHistory after /accounts/{stakeAddress}/delegations has
\* answered; the items carry no block_height
DelegationsResp ==
  \E r \in historyReqs :
    /\ r.op = "fetchDelegateHistory" /\ r.live
    /\ historyReqs' = historyReqs \ {r}
    /\ isDelegateHistoryLoading' = FALSE
    /\ \E resp \in DelegationResponses :
         IF resp.status = "200"
           THEN /\ delegateHistory' =
                     [i \in 1..Len(resp.data) |->
                        [transaction |-> resp.data[i].tx_hash,
                         epoch  |-> EpochText(resp.data[i].active_epoch, r.epoch),
                         block  |-> "N/A",
                         poolId |-> resp.data[i].pool_id]]
                /\ UNCHANGED <<historyError, handleErrorLog>>
           ELSE /\ handleError("Error fetching delegate history", RequestFailed(resp))
                /\ delegateHistory' = <<>>
    /\ UNCHANGED <<appVars, utilVars, homeVars, connVars, dashVars, stakeVars, lastFetch, transactions,
                   isLoading, currentPage, totalTransactions, paymentAddress,
                   stakeAddress, currentEpoch>>

\* what History renders
HistoryScreen ==
  IF isLoading \/ isDelegateHistoryLoading THEN "Preloader"
  ELSE IF historyError # Null THEN "Error"
  ELSE "History"

\* a click on the Retry button of the error screen
RetryClick ==
  /\ route = "history" /\ HistoryScreen = "Error"
  /\ fetchTransactions(historyReqs, "Retry", paymentAddress, currentPage)
  /\ UNCHANGED <<appVars, utilVars, homeVars, connVars, dashVars, stakeVars, lastFetch, transactions,
                 currentPage, totalTransactions, paymentAddress, stakeAddress,
                 delegateHistory, isDelegateHistoryLoading, currentEpoch>>

Max(a, b) == IF a > b THEN a ELSE b

Min(a, b) == IF a < b THEN a ELSE b

\* mutant: the page count rounds down
totalPages_Floor ==
  Max(1, totalTransactions \div ITEMS_PER_PAGE)

\* Math.max(1, Math.ceil(totalTransactions / ITEMS_PER_PAGE))
totalPages ==
  Max(1, (totalTransactions + ITEMS_PER_PAGE - 1) \div ITEMS_PER_PAGE)

maxVisiblePages == 5

\* renderPagination: the numbered page buttons
VisiblePages ==
  LET start0  == Max(1, currentPage - (maxVisiblePages \div 2))
      endPage == Min(totalPages, start0 + maxVisiblePages - 1)
      startPage == IF endPage - start0 + 1 < maxVisiblePages
                     THEN Max(1, endPage - maxVisiblePages + 1)
                     ELSE start0
  IN  startPage..endPage

\* the pages a click on <, on a numbered button or on > selects
PageClicks ==
  (IF currentPage = 1 THEN {} ELSE {Max(currentPage - 1, 1)})
    \cup VisiblePages
    \cup (IF currentPage = totalPages THEN {} ELSE {Min(currentPage + 1, totalPages)})

\* mutant: the pagination buttons are rendered while the page is loading
SetCurrentPage_WhileLoading ==
  /\ route = "history" /\ Len(transactions) > 0
  /\ \E page \in PageClicks \ {currentPage} :
       /\ currentPage' = page
       /\ IF paymentAddress # Null
            THEN fetchTransactions(historyReqs, "effect", paymentAddress, page)
            ELSE UNCHANGED <<isLoading, historyError, handleErrorLog, historyReqs>>
  /\ UNCHANGED <<appVars, utilVars, homeVars, connVars, dashVars, stakeVars, lastFetch, transactions,
                 totalTransactions, paymentAddress, stakeAddress, delegateHistory,
                 isDelegateHistoryLoading, currentEpoch>>

\* a click on a pagination button: setCurrentPage, and the effect on
\* [paymentAddress, currentPage] calls fetchTransactions()
SetCurrentPage ==
  /\ route = "history" /\ HistoryScreen = "History" /\ Len(transactions) > 0
  /\ \E page \in PageClicks \ {currentPage} :
       /\ currentPage' = page
       /\ IF paymentAddress # Null
            THEN fetchTransactions(historyReqs, "effect", paymentAddress, page)
            ELSE UNCHANGED <<isLoading, historyError, handleErrorLog, historyReqs>>
  /\ UNCHANGED <<appVars, utilVars, homeVars, connVars, dashVars, stakeVars, lastFetch, transactions,
                 totalTransactions, paymentAddress, stakeAddress, delegateHistory,
                 isDelegateHistoryLoading, currentEpoch>>

----------------------------------------------------------------------------
(* utils/wallet: isValidAdaAmount.                                         *)

MaxAda == 45000000

\* isValidAdaAmount(amount)
isValidAdaAmount(a) ==
  LET num == parseFloat(a)
  IN  ~isNaN(num) /\ DblPositive(num) /\ DblLeqBig(num, BigOfSmall(MaxAda))

\* the texts isValidAdaAmount is given: a sign, an integer part around 0,
\* MaxAda and MaxAda * 10^6, a fraction and an exponent, and texts that
\* are no numbers or only start with one
AmountSigns == {<<>>, <<"-">>}

AmountIntegers ==
  {<<"0">>, <<"1">>, NatToString(MaxAda - 1), NatToString(MaxAda),
   NatToString(MaxAda + 1),
   NatToString(MaxAda) \o <<"0", "0", "0", "0", "0", "0">>,
   NatToString(MaxAda) \o <<"0", "0", "0", "0", "0", "1">>}

AmountFractions == {<<>>, <<".", "0">>, <<".", "0", "0", "0", "0", "0", "1">>}

AmountExponents == {<<>>, <<"e", "6">>, <<"e", "-", "7">>}

AmountTexts ==
  {s \o i \o f \o x : s \in AmountSigns, i \in AmountIntegers,
                      f \in AmountFractions, x \in AmountExponents}
    \cup {<<>>, <<"a", "b", "c">>, <<".">>, <<".", "5">>, <<" ", "7">>,
          <<"7", "a", "b", "c">>, <<"1", ",", "5">>, <<"+", "3">>, <<"-">>}

\* a call isValidAdaAmount(adaAmount) returns
isValidAdaAmountCall ==
  /\ ~isValid.called
  /\ isValid' = [called |-> TRUE, value |-> isValidAdaAmount(adaAmount)]
  /\ UNCHANGED <<appVars, homeVars, connVars, dashVars, stakeVars, historyVars,
                 adaAmount, baseUnits, displayUnits>>

\* x.toFixed(6) of a non-negative double x below 2147
toFixed(x) ==
  IF isNaN(x) THEN <<"N", "a", "N">>
  ELSE toFixed6(DblNearestMultiple(x, Pow(10, FractionDigits)))

\* lovelaceToAda: (Number(lovelace) / 1000000).toFixed(6)
lovelaceToAda(lovelace) ==
  toFixed(DblDivSmall(Number(lovelace), LovelacePerAda))

\* display amounts with at most 6 fraction digits: an integer part and a
\* fraction of tenths, hundredths, thousandths or millionths
DisplayIntegers == {<<"0">>, <<"1">>, <<"2">>, <<"5">>, <<"8">>,
                    <<"1", "2", "3", "4">>}

DisplayFractions ==
  {<<>>, <<".", "2">>, <<".", "0", "1">>, <<".", "0", "0", "5">>,
   <<".", "5">>, <<".", "0", "0", "0", "0", "0", "1">>,
   <<".", "5", "6", "7", "8", "9", "1">>, <<".", "9", "9", "9", "9", "9", "9">>}

DisplayAmounts == {i \o f : i \in DisplayIntegers, f \in DisplayFractions}

\* a call adaToLovelace(adaAmount) returns
adaToLovelaceCall ==
  /\ baseUnits = NoUnits
  /\ baseUnits' = adaToLovelace(adaAmount)
  /\ UNCHANGED <<appVars, homeVars, connVars, dashVars, stakeVars, historyVars,
                 adaAmount, isValid, displayUnits>>

\* a call lovelaceToAda(baseUnits) returns
lovelaceToAdaCall ==
  /\ baseUnits # NoUnits /\ displayUnits = NoUnits
  /\ displayUnits' = lovelaceToAda(baseUnits)
  /\ UNCHANGED <<appVars, homeVars, connVars, dashVars, stakeVars, historyVars,
                 adaAmount, isValid, baseUnits>>

----------------------------------------------------------------------------
(* Layout (components/Layout).                                             *)

\* mutant: a disconnect cancels what is in flight
handleDisconnect_Cancels ==
  /\ wallet # NoWallet
  /\ wallet' = NoWallet
  /\ route' = "home"
  /\ UNCHANGED <<walletInfo, handleCount, utilVars>>
  /\ MountHome
  /\ connects' = <<>>
  /\ UNCHANGED lastConnect
  /\ balance' = <<"0">>
  /\ isLoadingBalance' = TRUE
  /\ stakePools' = <<>>
  /\ filteredPools' = <<>>
  /\ selectedPool' = NoPool
  /\ stakeAmount' = <<>>
  /\ poolSearch' = <<>>
  /\ isPoolListOpen' = FALSE
  /\ dashError' = Null
  /\ success' = NoSuccess
  /\ isStaking' = FALSE
  /\ balanceReqs' = <<>>
  /\ poolsReq' = FALSE
  /\ stakes' = EmptyBag
  /\ UNCHANGED lastStake
  /\ transactions' = <<>>
  /\ isLoading' = TRUE
  /\ historyError' = Null
  /\ currentPage' = 1
  /\ totalTransactions' = 0
  /\ paymentAddress' = Null
  /\ stakeAddress' = Null
  /\ delegateHistory' = <<>>
  /\ isDelegateHistoryLoading' = TRUE
  /\ currentEpoch' = NoEpoch
  /\ handleErrorLog' = Null
  /\ historyReqs' = {}
  /\ lastFetch' = NoFetch

\* handleDisconnect: setWallet(null); router.push('/')
handleDisconnect ==
  /\ wallet # NoWallet
  /\ wallet' = NoWallet
  /\ route' = "home"
  /\ UNCHANGED <<walletInfo, handleCount, utilVars>>
  /\ MountHome
  /\ connects' = Orphaned(connects)
  /\ UNCHANGED lastConnect
  /\ UnmountDash
  /\ UnmountHistory

\* the Stake and History links of the header
Navigate ==
  /\ wallet # NoWallet
  /\ \/ /\ route = "dash"
        /\ route' = "history"
        /\ UnmountDash
        /\ MountHistory
     \/ /\ route = "history"
        /\ route' = "dash"
        /\ MountDash(wallet)
        /\ UnmountHistory
        /\ UNCHANGED stakeVars
  /\ UNCHANGED <<wallet, walletInfo, handleCount, homeVars, connVars, utilVars>>

----------------------------------------------------------------------------
(* The application: Home is shown first, without a wallet.                 *)

Init ==
  /\ wallet = NoWallet
  /\ route = "home"
  /\ walletInfo = NoInfo
  /\ handleCount = 0
  /\ isConnecting = FALSE
  /\ isRedirecting = FALSE
  /\ availableWallets = <<>>
  /\ selectedWallet = ""
  /\ homeError = Null
  /\ walletsReq = TRUE
  /\ connects = <<>>
  /\ lastConnect = None
  /\ balance = <<"0">>
  /\ isLoadingBalance = TRUE
  /\ stakePools = <<>>
  /\ filteredPools = <<>>
  /\ selectedPool = NoPool
  /\ stakeAmount = <<>>
  /\ poolSearch = <<>>
  /\ isPoolListOpen = FALSE
  /\ dashError = Null
  /\ success = NoSuccess
  /\ isStaking = FALSE
  /\ balanceReqs = <<>>
  /\ poolsReq = FALSE
  /\ stakes = EmptyBag
  /\ lastStake = None
  /\ transactions = <<>>
  /\ isLoading = TRUE
  /\ historyError = Null
  /\ currentPage = 1
  /\ totalTransactions = 0
  /\ paymentAddress = Null
  /\ stakeAddress = Null
  /\ delegateHistory = <<>>
  /\ isDelegateHistoryLoading = TRUE
  /\ currentEpoch = NoEpoch
  /\ handleErrorLog = Null
  /\ historyReqs = {}
  /\ lastFetch = NoFetch
  /\ adaAmount = <<>>
  /\ isValid = NotCalled
  /\ baseUnits = NoUnits
  /\ displayUnits = NoUnits

NextConnect ==
  \/ WalletsResp
  \/ SelectWallet
  \/ ClickConnect
  \/ EnableResp
  \/ SettleTimer
  \/ NetworkIdResp
  \/ UsedAddressesResp
  \/ handleDisconnect
  \/ Navigate

\* connecting, disconnecting and moving between the pages
SpecConnect == Init /\ [][NextConnect]_vars

\* Dash as handleConnect leaves it: a wallet is held and Dash has mounted
InitDash ==
  /\ wallet = 1
  /\ route = "dash"
  /\ walletInfo = [set |-> TRUE, networkId |-> "1", address |-> "addr1q"]
  /\ handleCount = 1
  /\ isConnecting = FALSE
  /\ isRedirecting = FALSE
  /\ availableWallets = <<>>
  /\ selectedWallet = ""
  /\ homeError = Null
  /\ walletsReq = FALSE
  /\ connects = <<>>
  /\ lastConnect = [pc |-> "connected", handle |-> 1, message |-> Null]
  /\ balance = <<"0">>
  /\ isLoadingBalance = TRUE
  /\ stakePools = <<>>
  /\ filteredPools = <<>>
  /\ selectedPool = NoPool
  /\ stakeAmount = <<>>
  /\ poolSearch = <<>>
  /\ isPoolListOpen = FALSE
  /\ dashError = Null
  /\ success = NoSuccess
  /\ isStaking = FALSE
  /\ balanceReqs = <<[wallet |-> 1, live |-> TRUE]>>
  /\ poolsReq = TRUE
  /\ stakes = EmptyBag
  /\ lastStake = None
  /\ transactions = <<>>
  /\ isLoading = TRUE
  /\ historyError = Null
  /\ currentPage = 1
  /\ totalTransactions = 0
  /\ paymentAddress = Null
  /\ stakeAddress = Null
  /\ delegateHistory = <<>>
  /\ isDelegateHistoryLoading = TRUE
  /\ currentEpoch = NoEpoch
  /\ handleErrorLog = Null
  /\ historyReqs = {}
  /\ lastFetch = NoFetch
  /\ adaAmount = <<>>
  /\ isValid = NotCalled
  /\ baseUnits = NoUnits
  /\ displayUnits = NoUnits

NextStake ==
  \/ Navigate
  \/ BalanceResp
  \/ PoolsResp
  \/ SetPoolListOpen
  \/ SelectPool
  \/ SetStakeAmount
  \/ handleStake
  \/ SignDataResp
  \/ BuildResp
  \/ SignTxResp
  \/ SubmitTxResp

\* one session on the Dash and History pages
SpecStake == InitDash /\ [][NextStake]_vars

\* the History page just opened from the Stake page of a connected wallet
InitHistory ==
  /\ wallet = 1
  /\ route = "history"
  /\ walletInfo = [set |-> TRUE, networkId |-> "1", address |-> "addr1q"]
  /\ handleCount = 1
  /\ isConnecting = FALSE
  /\ isRedirecting = FALSE
  /\ availableWallets = <<>>
  /\ selectedWallet = ""
  /\ homeError = Null
  /\ walletsReq = FALSE
  /\ connects = <<>>
  /\ lastConnect = [pc |-> "connected", handle |-> 1, message |-> Null]
  /\ balance = <<"0">>
  /\ isLoadingBalance = TRUE
  /\ stakePools = <<>>
  /\ filteredPools = <<>>
  /\ selectedPool = NoPool
  /\ stakeAmount = <<>>
  /\ poolSearch = <<>>
  /\ isPoolListOpen = FALSE
  /\ dashError = Null
  /\ success = NoSuccess
  /\ isStaking = FALSE
  /\ balanceReqs = <<>>
  /\ poolsReq = FALSE
  /\ stakes = EmptyBag
  /\ lastStake = None
  /\ transactions = <<>>
  /\ isLoading = TRUE
  /\ historyError = Null
  /\ currentPage = 1
  /\ totalTransactions = 0
  /\ paymentAddress = Null
  /\ stakeAddress = Null
  /\ delegateHistory = <<>>
  /\ isDelegateHistoryLoading = TRUE
  /\ currentEpoch = NoEpoch
  /\ handleErrorLog = Null
  /\ historyReqs = {HistoryReq("fetchAddresses", "getUsedAddresses", "effect"),
                    HistoryReq("fetchCurrentEpoch", "fetch", "effect")}
  /\ lastFetch = NoFetch
  /\ adaAmount = <<>>
  /\ isValid = NotCalled
  /\ baseUnits = NoUnits
  /\ displayUnits = NoUnits

\* the History page, its listing answered by any of the answers
NextPaged ==
  \/ HistoryUsedAddressesResp
  \/ RewardAddressesResp
  \/ EpochResp
  \/ PagedListResp
  \/ DetailsResp
  \/ DelegationsResp
  \/ RetryClick
  \/ SetCurrentPage

SpecHistory == InitHistory /\ [][NextPaged]_vars

\* the application as started, and the text a caller of isValidAdaAmount
\* passes
InitValidate ==
  /\ wallet = NoWallet
  /\ route = "home"
  /\ walletInfo = NoInfo
  /\ handleCount = 0
  /\ isConnecting = FALSE
  /\ isRedirecting = FALSE
  /\ availableWallets = <<>>
  /\ selectedWallet = ""
  /\ homeError = Null
  /\ walletsReq = TRUE
  /\ connects = <<>>
  /\ lastConnect = None
  /\ balance = <<"0">>
  /\ isLoadingBalance = TRUE
  /\ stakePools = <<>>
  /\ filteredPools = <<>>
  /\ selectedPool = NoPool
  /\ stakeAmount = <<>>
  /\ poolSearch = <<>>
  /\ isPoolListOpen = FALSE
  /\ dashError = Null
  /\ success = NoSuccess
  /\ isStaking = FALSE
  /\ balanceReqs = <<>>
  /\ poolsReq = FALSE
  /\ stakes = EmptyBag
  /\ lastStake = None
  /\ transactions = <<>>
  /\ isLoading = TRUE
  /\ historyError = Null
  /\ currentPage = 1
  /\ totalTransactions = 0
  /\ paymentAddress = Null
  /\ stakeAddress = Null
  /\ delegateHistory = <<>>
  /\ isDelegateHistoryLoading = TRUE
  /\ currentEpoch = NoEpoch
  /\ handleErrorLog = Null
  /\ historyReqs = {}
  /\ lastFetch = NoFetch
  /\ adaAmount \in AmountTexts
  /\ isValid = NotCalled
  /\ baseUnits = NoUnits
  /\ displayUnits = NoUnits

NextValidate == isValidAdaAmountCall

\* calls of isValidAdaAmount
SpecValidate == InitValidate /\ [][NextValidate]_vars

\* the application as started, and the display amount a caller of
\* adaToLovelace passes
InitUnits ==
  /\ wallet = NoWallet
  /\ route = "home"
  /\ walletInfo = NoInfo
  /\ handleCount = 0
  /\ isConnecting = FALSE
  /\ isRedirecting = FALSE
  /\ availableWallets = <<>>
  /\ selectedWallet = ""
  /\ homeError = Null
  /\ walletsReq = TRUE
  /\ connects = <<>>
  /\ lastConnect = None
  /\ balance = <<"0">>
  /\ isLoadingBalance = TRUE
  /\ stakePools = <<>>
  /\ filteredPools = <<>>
  /\ selectedPool = NoPool
  /\ stakeAmount = <<>>
  /\ poolSearch = <<>>
  /\ isPoolListOpen = FALSE
  /\ dashError = Null
  /\ success = NoSuccess
  /\ isStaking = FALSE
  /\ balanceReqs = <<>>
  /\ poolsReq = FALSE
  /\ stakes = EmptyBag
  /\ lastStake = None
  /\ transactions = <<>>
  /\ isLoading = TRUE
  /\ historyError = Null
  /\ currentPage = 1
  /\ totalTransactions = 0
  /\ paymentAddress = Null
  /\ stakeAddress = Null
  /\ delegateHistory = <<>>
  /\ isDelegateHistoryLoading = TRUE
  /\ currentEpoch = NoEpoch
  /\ handleErrorLog = Null
  /\ historyReqs = {}
  /\ lastFetch = NoFetch
  /\ adaAmount \in DisplayAmounts
  /\ isValid = NotCalled
  /\ baseUnits = NoUnits
  /\ displayUnits = NoUnits

NextUnits ==
  \/ adaToLovelaceCall
  \/ lovelaceToAdaCall

\* an amount converted to base units and back
SpecUnits == InitUnits /\ [][NextUnits]_vars

NextPools ==
  \/ Navigate
  \/ ChangedPoolsResp
  \/ SearchPools
  \/ SetPoolListOpen
  \/ SelectPool
  \/ SetStakeAmount
  \/ handleStake
  \/ SignDataResp
  \/ BuildResp
  \/ SignTxResp
  \/ SubmitTxResp

\* searching, selecting and staking while the directory's list changes
\* between two visits of the Dash page (the wallet's answers to
\* getLovelace stay pending)
SpecPools == InitDash /\ [][NextPools]_vars

NextAddresses ==
  \/ NextConnect
  \/ BalanceResp
  \/ PoolsResp
  \/ SetPoolListOpen
  \/ SelectPool
  \/ SetStakeAmount
  \/ handleStake
  \/ HistoryUsedAddressesResp

\* connecting, and what each page starts on the session: the balance
\* read, the attestation of a submission, the History page's address query
SpecAddresses == Init /\ [][NextAddresses]_vars

\* the History page with every detail request of a page answering on its
\* own
NextDetails ==
  \/ HistoryUsedAddressesResp
  \/ RewardAddressesResp
  \/ EpochResp
  \/ PagedListResp
  \/ DetailResp
  \/ DelegationsResp
  \/ RetryClick
  \/ SetCurrentPage

SpecDetails == InitHistory /\ [][NextDetails]_vars

NextDirectory ==
  \/ Navigate
  \/ BalanceResp
  \/ BulkPoolsResp
  \/ SearchPools
  \/ SetPoolListOpen

\* the Dash page and a pool directory of any size
SpecDirectory == InitDash /\ [][NextDirectory]_vars

NextDash ==
  \/ Navigate
  \/ BalanceResp
  \/ PoolsResp
  \/ TypePoolSearch
  \/ SetPoolListOpen
  \/ SelectPool
  \/ SetStakeAmount

\* the Dash page without submissions: balance, pool directory and form
SpecDash == InitDash /\ [][NextDash]_vars

NextHistory ==
  \/ HistoryUsedAddressesResp
  \/ RewardAddressesResp
  \/ EpochResp
  \/ ListResp
  \/ DetailsResp
  \/ DelegationsResp
  \/ RetryClick
  \/ SetCurrentPage

\* every request of the History page eventually resolves or fails
HistoryAnswers ==
  /\ WF_vars(HistoryUsedAddressesResp)
  /\ WF_vars(RewardAddressesResp)
  /\ WF_vars(EpochResp)
  /\ WF_vars(ListResp)
  /\ WF_vars(DetailsResp)
  /\ WF_vars(DelegationsResp)

\* the History page when every request is answered
SpecAnswered == InitHistory /\ [][NextHistory]_vars /\ HistoryAnswers

\* Dash once the balance and the pools have arrived, a pool is selected
\* and an amount is typed
InitSession ==
  /\ wallet = 1
  /\ route = "dash"
  /\ walletInfo = [set |-> TRUE, networkId |-> "1", address |-> "addr1q"]
  /\ handleCount = 1
  /\ isConnecting = FALSE
  /\ isRedirecting = FALSE
  /\ availableWallets = <<>>
  /\ selectedWallet = ""
  /\ homeError = Null
  /\ walletsReq = FALSE
  /\ connects = <<>>
  /\ lastConnect = [pc |-> "connected", handle |-> 1, message |-> Null]
  /\ balance = <<"2", "5", ".", "0", "0", "0", "0", "0", "0">>
  /\ isLoadingBalance = FALSE
  /\ \E data \in DirectoryResponses :
       /\ stakePools = MapPools(data)
       /\ filteredPools = MapPools(data)
       /\ selectedPool = MapPools(data)[1]
  /\ stakeAmount = <<"8", ".", "2">>
  /\ poolSearch = <<>>
  /\ isPoolListOpen = FALSE
  /\ dashError = Null
  /\ success = NoSuccess
  /\ isStaking = FALSE
  /\ balanceReqs = <<>>
  /\ poolsReq = FALSE
  /\ stakes = EmptyBag
  /\ lastStake = None
  /\ transactions = <<>>
  /\ isLoading = TRUE
  /\ historyError = Null
  /\ currentPage = 1
  /\ totalTransactions = 0
  /\ paymentAddress = Null
  /\ stakeAddress = Null
  /\ delegateHistory = <<>>
  /\ isDelegateHistoryLoading = TRUE
  /\ currentEpoch = NoEpoch
  /\ handleErrorLog = Null
  /\ historyReqs = {}
  /\ lastFetch = NoFetch
  /\ adaAmount = <<>>
  /\ isValid = NotCalled
  /\ baseUnits = NoUnits
  /\ displayUnits = NoUnits

NextSession ==
  \/ Navigate
  \/ handleDisconnect
  \/ BalanceResp
  \/ PoolsResp
  \/ handleStake
  \/ SignDataResp
  \/ BuildResp
  \/ SignTxResp
  \/ SubmitTxResp
  \/ NextHistory

\* submissions from the filled form and the History page of one session
SpecSession == InitSession /\ [][NextSession]_vars

\* leaving the page or the session with a submission and the History
\* page's reads in flight
NextLeave ==
  \/ Navigate
  \/ handleDisconnect
  \/ handleStake
  \/ SignDataResp
  \/ BuildResp
  \/ SignTxResp
  \/ SubmitTxResp
  \/ HistoryUsedAddressesResp
  \/ ListResp

SpecLeave == InitSession /\ [][NextLeave]_vars

\* submissions from the filled form, then disconnecting and connecting
\* again
NextRelease ==
  \/ handleStake
  \/ SignDataResp
  \/ BuildResp
  \/ SignTxResp
  \/ SubmitTxResp
  \/ Navigate
  \/ handleDisconnect
  \/ WalletsResp
  \/ SelectWallet
  \/ ClickConnect
  \/ EnableResp
  \/ SettleTimer
  \/ NetworkIdResp
  \/ UsedAddressesResp

\* a wallet call of a submission returns or throws
StakeCallAnswers == SignDataResp \/ BuildResp \/ SignTxResp \/ SubmitTxResp

\* a wallet call of a connect returns or throws, or its settle timer fires
ConnectCallAnswers ==
  EnableResp \/ SettleTimer \/ NetworkIdResp \/ UsedAddressesResp

\* every wallet call eventually returns or throws, and the settle timer
\* fires
WalletAnswers == WF_vars(StakeCallAnswers) /\ WF_vars(ConnectCallAnswers)

SpecRelease == InitSession /\ [][NextRelease]_vars /\ WalletAnswers

----------------------------------------------------------------------------
(* Properties of the stake flow (SpecStake).                               *)

\* C1: a stake submission whose amount is not a number or parses to a
\* number below 5 ends in Failed with the below-minimum error without any
\* wallet call (no signData, build, signTx, submitTx), and no submission
\* with such an amount is ever in flight.
C1_BelowMinimumNeverAttests ==
  LET below(a) == isNaN(stakeAmountNumber[a])
                    \/ DblLessSmall(stakeAmountNumber[a], 5)
  IN  /\ \A t \in BagToSet(stakes) : ~below(t.amount)
      /\ (lastStake.pc # "none" /\ below(lastStake.amount)) =>
           /\ lastStake.pc = "Failed"
           /\ lastStake.error = "Stake amount must be at least 5 ADA"
           /\ lastStake.calls = <<>>
           /\ lastStake.tx = NoTx

C1_Witness ==
  /\ lastStake.pc = "Failed"
  /\ lastStake.amount = <<>>
  /\ lastStake.calls = <<>>
  /\ dashError = "Stake amount must be at least 5 ADA"
  /\ ~isStaking

\* C2: the wallet calls of a submission are made in the order signData
\* (with the selected pool's name as message), build, signTx, submitTx,
\* each only after the one before has succeeded (the pending call is the
\* last one made), and a Succeeded submission has made all four and
\* returns the identifier submitTx returned.
C2_FixedCallOrder ==
  LET Flow == <<"signData", "build", "signTx", "submitTx">>
      prefix(c) == Len(c) <= Len(Flow) /\ c = SubSeq(Flow, 1, Len(c))
  IN  /\ \A t \in BagToSet(stakes) :
           /\ prefix(t.calls) /\ Len(t.calls) >= 1
           /\ t.pc = t.calls[Len(t.calls)]
           /\ t.message = t.pool.name
      /\ lastStake.pc # "none" => prefix(lastStake.calls)
      /\ lastStake.pc = "Succeeded" =>
           lastStake.calls = Flow /\ lastStake.txHash \in TxHashes

C2_Witness ==
  /\ lastStake.pc = "Succeeded"
  /\ lastStake.txHash = "tx_a"
  /\ lastStake.calls = <<"signData", "build", "signTx", "submitTx">>

\* C3: a submission that fails in the attestation step (signData was its
\* only call) ends in Failed with the attestation error, and no transaction
\* was built, signed or submitted; no transaction exists while signData is
\* pending.
C3_AttestationFailure ==
  /\ \A t \in BagToSet(stakes) : t.pc = "signData" => t.tx = NoTx
  /\ (lastStake.pc = "Failed" /\ lastStake.calls = <<"signData">>) =>
       /\ lastStake.error = "Failed to sign message"
       /\ lastStake.tx = NoTx

C3_Witness ==
  /\ lastStake.pc = "Failed"
  /\ lastStake.calls = <<"signData">>
  /\ lastStake.cause = "user declined"
  /\ dashError = "Failed to sign message"

\* C4 as stated: when build, signTx or submitTx fails, the message surfaced
\* is the provider's own failure message.
C4_ProviderMessageSurfaced ==
  (lastStake.pc = "Failed" /\ Len(lastStake.calls) >= 2) =>
    lastStake.error = lastStake.cause

\* C4 amended: when build, signTx or submitTx fails, the submission ends in
\* Failed and the message surfaced is the fixed text 'Failed to stake
\* funds', whatever the provider threw.
C4_FixedSubmissionMessage ==
  (lastStake.pc = "Failed" /\ Len(lastStake.calls) >= 2) =>
    lastStake.error = "Failed to stake funds"

C4_Witness ==
  /\ lastStake.pc = "Failed"
  /\ lastStake.calls = <<"signData", "build", "signTx">>
  /\ lastStake.cause = "user declined"
  /\ dashError = "Failed to stake funds"

\* C5: at most one stake submission is in flight per wallet session.
C5_OneSubmissionInFlight ==
  \A h \in Handles :
    LET inFlight == {t \in BagToSet(stakes) : t.wallet = h}
    IN  /\ Cardinality(inFlight) <= 1
        /\ \A t \in inFlight : CopiesIn(t, stakes) = 1

----------------------------------------------------------------------------
(* Properties of connecting and disconnecting (SpecConnect).               *)

\* C8: a connect without a handle, without a network id or without a used
\* address fails: a session is only ever held with a handle, a network id
\* and an address, and the step in which a connect fails leaves the wallet,
\* the session storage and the page as they were, reports the error and
\* starts no other connect.
C8_FailedConnectChangesNothing ==
  /\ [](/\ \A i \in 1..Len(connects) :
             connects[i].pc # "enable" => connects[i].handle # NoWallet
        /\ wallet # NoWallet =>
             /\ walletInfo.set
             /\ walletInfo.networkId # Undefined
             /\ walletInfo.address # Undefined)
  /\ [][(Len(connects') < Len(connects) /\ lastConnect'.pc = "failed") =>
          /\ wallet' = wallet
          /\ walletInfo' = walletInfo
          /\ route' = route
          /\ ~isRedirecting'
          /\ connects' = <<>>
          /\ homeError' = lastConnect'.message]_vars

C8_Witness ==
  /\ lastConnect.pc = "failed"
  /\ lastConnect.message = "Wallet connection failed: Failed to retrieve wallet information"
  /\ homeError = lastConnect.message
  /\ wallet = NoWallet
  /\ walletInfo = NoInfo
  /\ route = "home"
  /\ connects = <<>>

\* C9: whenever no wallet is held (before the first connect and after any
\* disconnect) the session storage holds no walletInfo entry.
C9_StorageClearedOnDisconnect ==
  wallet = NoWallet => walletInfo = NoInfo

\* C10: the application holds at most one wallet handle, one that enable
\* has returned; at most one connect is in flight, and only while
\* isConnecting is set on Home; a successful connect makes its new handle
\* the held one.
C10_OneSessionOneConnect ==
  /\ [](/\ Len(connects) <= 1
        /\ Len(connects) = 1 => isConnecting /\ route = "home"
        /\ wallet \in {NoWallet} \cup (1..handleCount))
  /\ [][(Len(connects') < Len(connects) /\ lastConnect'.pc = "connected") =>
          /\ wallet' = connects[1].handle
          /\ wallet' # wallet]_vars

C10_Witness ==
  /\ wallet = 2
  /\ lastConnect.pc = "connected"
  /\ lastConnect.handle = 2
  /\ route = "dash"

----------------------------------------------------------------------------
(* Properties of retries (SpecSession).                                    *)

NoRepeatedCall(calls) ==
  \A i, j \in 1..Len(calls) : i # j => calls[i] # calls[j]

\* the step makes a wallet call of a submission
StakeCallMade ==
  \E t \in BagToSet(OrphanedBag(stakes')) :
    CopiesIn(t, OrphanedBag(stakes')) > CopiesIn(t, OrphanedBag(stakes))

\* the step makes a request of the mounted History page
HistoryCallMade == \E r \in historyReqs' \ historyReqs : r.live

\* the step ends a submission as Failed
SubmissionFails ==
  /\ lastStake'.pc = "Failed"
  /\ \/ BagCardinality(stakes') < BagCardinality(stakes)
     \/ lastStake' # lastStake

\* the step ends a fetchTransactions of the mounted page in its catch
TransactionsFetchFails ==
  /\ isLoading /\ ~isLoading'
  /\ historyError' # Null
  /\ handleErrorLog' = "Error fetching transactions"

\* History shows the error of a failed fetchTransactions
FailedFetchShown ==
  /\ route = "history"
  /\ ~isLoading
  /\ historyError # Null
  /\ handleErrorLog = "Error fetching transactions"

\* C6 as stated, for the transaction-history fetch: from a failed
\* fetchTransactions until the next user action (Retry, a page change, a
\* navigation, a disconnect, Stake) no wallet or indexer call is made by
\* the History page.
C6_NoCallUntilUserAction ==
  [][(FailedFetchShown
        /\ ~(RetryClick \/ SetCurrentPage \/ Navigate \/ handleDisconnect
               \/ handleStake))
       => ~HistoryCallMade]_vars

\* C6, amended: nothing is retried automatically.  A submission makes each
\* of signData, build, signTx and submitTx at most once, and the step in
\* which it fails makes no call.  fetchTransactions is only invoked by the
\* effect on the payment address and the page and by the Retry button; the
\* step in which it fails makes no request; a listing request is only made
\* when the payment address arrives, on a click on Retry or on a page
\* change, and detail requests only by the listing response of their own
\* fetch.  (Calls of other operations under way, getRewardAddresses and the
\* delegation request among them, are not excluded after a failure.)
C6_NoAutomaticRetry ==
  /\ [](/\ \A t \in BagToSet(stakes) :
             /\ NoRepeatedCall(t.calls)
             /\ \A i \in 1..Len(t.calls) :
                  t.calls[i] \in {"signData", "build", "signTx", "submitTx"}
        /\ NoRepeatedCall(lastStake.calls)
        /\ \A r \in historyReqs :
             r.op = "fetchTransactions" => r.by \in {"effect", "Retry"})
  /\ [][/\ SubmissionFails =>
             /\ ~StakeCallMade
             /\ balanceReqs' = balanceReqs
             /\ historyReqs' = historyReqs
        /\ TransactionsFetchFails => historyReqs' \subseteq historyReqs
        /\ \A r \in historyReqs' \ historyReqs :
             /\ (r.op = "fetchTransactions" /\ r.pc = "list" /\ r.live) =>
                  \/ RetryClick
                  \/ SetCurrentPage
                  \/ paymentAddress = Null /\ paymentAddress' # Null
             /\ (r.op = "fetchTransactions" /\ r.pc = "details") =>
                  \E q \in historyReqs \ historyReqs' :
                    /\ q.op = "fetchTransactions" /\ q.pc = "list"
                    /\ q.page = r.page /\ q.by = r.by]_vars

C6_Witness ==
  /\ FailedFetchShown
  /\ historyError = "API request failed: 500 Internal Server Error"
  /\ \A r \in historyReqs : r.op # "fetchTransactions"
  /\ lastStake.pc = "Failed"
  /\ lastStake.calls = <<"signData", "build", "signTx">>

----------------------------------------------------------------------------
(* Properties of the Dash page's reads (SpecDash).                         *)

\* C11: getBalance answers "0" when the balance query fails, and the step
\* in which a balance query is answered, failed queries included, clears
\* isLoadingBalance, sets the balance to what getBalance answers and
\* leaves the Dash error as it was.
C11_BalanceFailureGivesZero ==
  /\ [](\A reply \in LovelaceReplies :
          ~reply.ok => getBalance(reply) = <<"0">>)
  /\ [][(Len(balanceReqs') < Len(balanceReqs) /\ route' = route) =>
          /\ ~isLoadingBalance'
          /\ dashError' = dashError
          /\ balance' \in {getBalance(reply) : reply \in LovelaceReplies}]_vars

C11_Witness ==
  /\ route = "dash"
  /\ balanceReqs = <<>>
  /\ ~isLoadingBalance
  /\ balance = <<"0">>
  /\ dashError = Null

----------------------------------------------------------------------------
(* Properties of the History page's reads (SpecHistory).                   *)

\* the step in which the listing request of the mounted History page is
\* answered
ListAnswered ==
  /\ route = "history" /\ route' = "history"
  /\ \E r \in historyReqs :
       /\ r.op = "fetchTransactions" /\ r.pc = "list" /\ r.live
       /\ r \notin historyReqs'

\* a detail request of fetchTransactions is in flight
DetailsRequested(reqs) ==
  \E q \in reqs : q.op = "fetchTransactions" /\ q.pc = "details"

\* C12: when the listing request is answered 404, the step leaves an empty
\* transaction list with total 0, clears isLoading, sets no error (error
\* and log are as before) and issues no detail request or other request.
C12_NotFoundIsEmptyHistory ==
  [][(ListAnswered /\ lastFetch'.status = "404") =>
       /\ transactions' = <<>>
       /\ totalTransactions' = 0
       /\ ~isLoading'
       /\ historyError' = historyError
       /\ handleErrorLog' = handleErrorLog
       /\ ~DetailsRequested(historyReqs')
       /\ historyReqs' \subseteq historyReqs]_vars

C12_Witness ==
  /\ route = "history"
  /\ lastFetch.stage = "list" /\ lastFetch.status = "404"
  /\ transactions = <<>>
  /\ totalTransactions = 0
  /\ ~isLoading
  /\ historyError = Null

\* the status texts of the listing's answers
StatusTexts ==
  {resp.statusText : resp \in ListResponses \cup PagedResponses}

\* the message carries the status code of the answer
EmbedsStatus(message, status) ==
  \E text \in StatusTexts :
    message = "API request failed: " \o status \o " " \o text

\* C13: when the listing request is answered with a status that is neither
\* success nor 404, the step sets an error whose message carries that
\* status code, issues no detail request and leaves the displayed
\* transactions and total as they were.
C13_FailureEmbedsStatus ==
  [][(ListAnswered /\ lastFetch'.status \notin {"0", "200", "404"}) =>
       /\ EmbedsStatus(historyError', lastFetch'.status)
       /\ ~DetailsRequested(historyReqs')
       /\ transactions' = transactions
       /\ totalTransactions' = totalTransactions]_vars

\* the answer fetchTransactions took last made it throw: the listing was
\* rejected, was not ok (404 apart), had no JSON body, or a detail failed
FetchFailed(f) ==
  \/ f.stage = "list" /\ f.status # "404" /\ (f.status # "200" \/ ~f.json)
  \/ f.stage = "details" /\ ~f.ok

\* no request of the mounted History page is in flight
HistoryResolved == \A r \in historyReqs : ~r.live

\* C14: once every request of the History page has resolved and its last
\* transaction fetch has failed, the page shows the error screen with the
\* Retry button.
C14_FetchFailureShown ==
  (route = "history" /\ HistoryResolved /\ FetchFailed(lastFetch)) =>
    HistoryScreen = "Error"

\* the last failure handleError was given is that of fetchDelegateHistory
DelegationsFetchFailed == handleErrorLog = "Error fetching delegate history"

\* C15: once every request of the History page has resolved, its last
\* transaction fetch has succeeded and the delegation fetch has failed,
\* the delegation list is empty and the page renders the transaction
\* history, not the error screen.
C15_DelegationFailureNotBlocking ==
  (/\ route = "history" /\ HistoryResolved
   /\ lastFetch.stage # "none" /\ ~FetchFailed(lastFetch)
   /\ DelegationsFetchFailed) =>
    (delegateHistory = <<>> /\ HistoryScreen = "History")

\* the least number of pages of pageSize entries that hold total entries
PagesFor(total, pageSize) ==
  CHOOSE n \in 0..total :
    /\ n * pageSize >= total
    /\ \A k \in 0..total : k * pageSize >= total => n <= k

\* a step in which fetchTransactions of the mounted page finishes with the
\* listing (an empty one) or its details
FetchSucceeded ==
  /\ route = "history" /\ route' = "history"
  /\ \E r \in historyReqs :
       /\ r.op = "fetchTransactions" /\ r.live
       /\ \A q \in historyReqs' : q.op # "fetchTransactions"
  /\ lastFetch'.status = "200" /\ lastFetch'.json /\ lastFetch'.ok
  /\ lastFetch'.stage = "details" \/ lastFetch'.count = 0

\* C16: the page count is the least number of pages of 10 that hold the
\* total, and at least 1 (3 pages for 23); a fetch that succeeds shows as
\* many items as the listing has and records the total the indexer
\* reports, also when the page is past the last one and the listing is
\* empty (3 items, or none, with total 23).
C16_PageCountAndTrueTotal ==
  /\ [](/\ totalPages = Max(1, PagesFor(totalTransactions, 10))
        /\ totalTransactions = 23 => totalPages = 3)
  /\ [][FetchSucceeded =>
          /\ Len(transactions') = lastFetch'.count
          /\ lastFetch'.total = <<"2", "3">> => totalTransactions' = 23
          /\ lastFetch'.total = <<"4", "1">> => totalTransactions' = 41
          /\ lastFetch'.total = <<"1", "1">> => totalTransactions' = 11
          /\ lastFetch'.total = <<>> => totalTransactions' = 0]_vars

C16_Witness ==
  /\ route = "history"
  /\ ~isLoading
  /\ lastFetch.stage = "list" /\ lastFetch.status = "200"
  /\ lastFetch.page = 4 /\ currentPage = 4
  /\ transactions = <<>>
  /\ totalTransactions = 23
  /\ totalPages = 3

----------------------------------------------------------------------------
(* Properties of overlapping page requests (SpecSession).                  *)

\* the page requests in flight, of the mounted page or of one left before
PageRequests(reqs) == {r \in reqs : r.op = "fetchTransactions"}

\* a step of the History page in which a page request finishes: its
\* listing or its details are answered and no request takes its place
PageRequestResolved(live) ==
  /\ route = "history" /\ route' = "history"
  /\ \E r \in PageRequests(historyReqs) :
       /\ r.live = live
       /\ PageRequests(historyReqs') = PageRequests(historyReqs) \ {r}

\* the page shows what a fetchTransactions that was answered resp by the
\* listing and txDetails by the detail requests leaves when it finishes
Shows(resp, txDetails) ==
  /\ ~isLoading'
  /\ IF resp.status = "404"
       THEN /\ transactions' = <<>>
            /\ totalTransactions' = 0
            /\ historyError' = historyError
     ELSE IF resp.status = "200" /\ resp.json /\ (resp.data = <<>> \/ txDetails.ok)
       THEN /\ transactions' = [i \in 1..Len(resp.data) |->
                                  TransactionItem(resp.data[i], txDetails)]
            /\ totalTransactions' = TotalCount(resp.total)
            /\ historyError' = historyError
     ELSE /\ transactions' = transactions
          /\ totalTransactions' = totalTransactions
          /\ historyError' \in {FetchRejected.message, NotJSON.message,
                                RequestFailed(resp).message}

\* the step shows the answer to the page request that finishes in it
ResolvedShown ==
  \E resp \in ListResponses \cup PagedResponses, txDetails \in DetailResponses :
    Shows(resp, txDetails)

\* C17 as stated: when page requests overlap, the one that resolves last
\* wins, that is, every step in which one of several page requests in
\* flight finishes shows the answer to that request.
C17_LastResolvedWins ==
  [][(/\ Cardinality(PageRequests(historyReqs)) > 1
      /\ PageRequestResolved(TRUE) \/ PageRequestResolved(FALSE)) =>
       ResolvedShown]_vars

\* C17 amended: the mounted History page has at most one page request in
\* flight, which is for the selected page while the page is loading; the
\* step in which it finishes shows its answer; the step in which a request
\* of a page that was left finishes changes nothing of what is shown.
C17_OnePageRequestPerView ==
  /\ [](\A r, q \in PageRequests(historyReqs) :
          (r.live /\ q.live) => (r = q /\ r.page = currentPage /\ isLoading))
  /\ [][PageRequestResolved(TRUE) =>
          (ResolvedShown /\ lastFetch'.page = currentPage')]_vars
  /\ [][PageRequestResolved(FALSE) =>
          UNCHANGED <<transactions, totalTransactions, isLoading,
                      historyError, currentPage>>]_vars

C17_Witness ==
  /\ route = "history"
  /\ \E r \in PageRequests(historyReqs) : ~r.live
  /\ lastFetch.stage = "details" /\ lastFetch.ok /\ lastFetch.page = currentPage
  /\ ~isLoading
  /\ Len(transactions) = lastFetch.count

----------------------------------------------------------------------------
(* Properties of the pool directory (SpecDirectory).                       *)

\* the step in which the directory request is answered or fails
DirectoryAnswered == route = "dash" /\ route' = "dash" /\ poolsReq /\ ~poolsReq'

\* pools are the first entries of data, at most cap of them, in order,
\* with "" for an absent ticker and "Unnamed Pool" for an absent name
KeepsFirst(pools, data, cap) ==
  /\ Len(pools) = (IF Len(data) <= cap THEN Len(data) ELSE cap)
  /\ \A i \in 1..Len(pools) :
       /\ pools[i].id = data[i].pool_id
       /\ pools[i].ticker = data[i].ticker
       /\ pools[i].name = (IF data[i].name = <<>>
                             THEN <<"U", "n", "n", "a", "m", "e", "d", " ",
                                    "P", "o", "o", "l">>
                             ELSE data[i].name)

\* C18: the step in which the directory request ends either sets the
\* pools to the first min(n, 1000) entries of an answer of n entries, in
\* order and with the defaults, or leaves the pools unchanged and sets the
\* pool-fetch error; a new directory request is made only by a mount of
\* the Dash page.
C18_FirstThousandPools ==
  /\ [][DirectoryAnswered =>
          \/ /\ \E data \in DirectoryResponses \cup BulkDirectories :
                  KeepsFirst(stakePools', data, 1000)
             /\ dashError' = dashError
          \/ /\ stakePools' = stakePools
             /\ dashError' = "Failed to fetch stake pools"]_vars
  /\ [][(~poolsReq /\ poolsReq') => (route # "dash" /\ route' = "dash")]_vars

C18_Witness ==
  /\ route = "dash" /\ ~poolsReq
  /\ Len(stakePools) = 1000
  /\ KeepsFirst(stakePools, Directory(1500), 1000)
  /\ stakePools[1000].ticker = <<>>
  /\ stakePools[999].name = <<"U", "n", "n", "a", "m", "e", "d", " ", "P", "o", "o", "l">>

----------------------------------------------------------------------------
(* Properties of the pool filter (SpecDash).                               *)

\* a and b are the same character or the two cases of one letter
SameLetter(a, b) ==
  a = b \/ \E k \in 1..26 : {a, b} = {UpperCase[k], LowerCase[k]}

\* query occurs in text, whatever the case of the letters
Occurs(text, query) ==
  \E i \in 0..(Len(text) - Len(query)) :
    \A j \in 1..Len(query) : SameLetter(text[i + j], query[j])

\* the positions in pools of the pools whose name or ticker has the query
Matching(pools, query) ==
  {i \in 1..Len(pools) :
     Occurs(pools[i].name, query) \/ Occurs(pools[i].ticker, query)}

\* C19: on the Dash page the filtered pools are exactly the pools whose
\* name or ticker contains the typed text, case ignored, in the order of
\* the fetched pools (all of them for the empty text); the fetched pools
\* change only when the directory answers or the page is left.
C19_FilterIsDerivedView ==
  /\ [](route = "dash" =>
          LET at == Matching(stakePools, poolSearch)
          IN  /\ Len(filteredPools) = Cardinality(at)
              /\ \A k \in 1..Len(filteredPools) :
                   filteredPools[k] =
                     stakePools[CHOOSE i \in at :
                                  Cardinality({j \in at : j <= i}) = k]
              /\ poolSearch = <<>> => filteredPools = stakePools)
  /\ [][stakePools' # stakePools => (DirectoryAnswered \/ route' # route)]_vars

C19_Witness ==
  /\ route = "dash"
  /\ Len(stakePools) = 2
  /\ poolSearch = <<"U", "N">>
  /\ filteredPools = <<stakePools[2]>>
  /\ stakePools[2].name = UnnamedPool

----------------------------------------------------------------------------
(* Properties of isValidAdaAmount (SpecValidate).                          *)

\* 45,000,000,000,000
StatedCeiling == BigMulPow10(BigOfSmall(45), 12)

\* C20: isValidAdaAmount answers true exactly for the texts that parse to
\* a finite number greater than 0 and at most 45,000,000,000,000.
C20_ValidUpToStatedCeiling ==
  isValid.called =>
    (isValid.value <=>
       LET d == parseFloat(adaAmount)
       IN  d.kind = "num" /\ ~d.neg /\ DblLeqBig(d, StatedCeiling))

----------------------------------------------------------------------------
(* Properties of the unit conversions (SpecUnits).                         *)

\* the digits of a display amount before and after its decimal point
PointAt(x) == ScanWhile(x, 1, Digits)

IntegerDigits(x) == SubSeq(x, 1, PointAt(x) - 1)

FractionDigitsOf(x) == SubSeq(x, PointAt(x) + 1, Len(x))

RECURSIVE PadRight(_, _)
PadRight(s, n) == IF Len(s) >= n THEN s ELSE PadRight(s \o <<"0">>, n)

RECURSIVE StripZeros(_)
StripZeros(s) ==
  IF Len(s) > 1 /\ Head(s) = "0" THEN StripZeros(Tail(s)) ELSE s

\* the integer x * 1,000,000 of a display amount x, as its decimal text
TimesMillion(x) ==
  StripZeros(IntegerDigits(x) \o PadRight(FractionDigitsOf(x), FractionDigits))

\* a display amount x written with exactly 6 fraction digits
WithSixDigits(x) ==
  IntegerDigits(x) \o <<".">> \o PadRight(FractionDigitsOf(x), FractionDigits)

\* C21: for every display amount with at most 6 fraction digits,
\* adaToLovelace returns the integer amount * 1,000,000 as text, and
\* lovelaceToAda of that result is the amount written with exactly 6
\* fraction digits.
C21_UnitsRoundTrip ==
  /\ baseUnits # NoUnits => baseUnits = TimesMillion(adaAmount)
  /\ displayUnits # NoUnits => displayUnits = WithSixDigits(adaAmount)

----------------------------------------------------------------------------
(* Properties of the pool selection (SpecPools).                           *)

\* pool is, by its id, one of the fetched pools
InFetchedSet(pool, pools) == \E i \in 1..Len(pools) : pools[i].id = pool.id

\* C22: the selected pool, every pool offered in the list and the pool of
\* every submission of the mounted page is, by id, one of the fetched
\* pools; selectedPool is only ever set to an entry of filteredPools, and
\* handleStake attests for a pool of the fetched set.
C22_SelectedPoolIsFetched ==
  /\ [](/\ selectedPool # NoPool => InFetchedSet(selectedPool, stakePools)
        /\ \A i \in 1..Len(filteredPools) :
             InFetchedSet(filteredPools[i], stakePools)
        /\ \A t \in BagToSet(stakes) :
             t.live => InFetchedSet(t.pool, stakePools))
  /\ [][/\ (selectedPool' # selectedPool /\ selectedPool' # NoPool)
             => \E i \in 1..Len(filteredPools) : filteredPools[i] = selectedPool'
        /\ \A t \in BagToSet(stakes') :
             t.live /\ t.pc = "signData"
                 /\ CopiesIn(t, stakes') > CopiesIn(t, stakes)
               => /\ t.pool = selectedPool
                  /\ t.message = selectedPool.name
                  /\ InFetchedSet(t.pool, stakePools)]_vars

\* a submission for the remaining pool is at its attestation after the
\* directory has changed, while one for the retired pool, made on the
\* earlier visit, is still in flight
C22_Witness ==
  \E t, u \in BagToSet(stakes) :
    /\ t.live /\ t.pc = "signData" /\ t.pool.id = "pool2"
    /\ Len(stakePools) = 1
    /\ ~u.live /\ u.pool.id = "pool1"

----------------------------------------------------------------------------
(* Properties of the address precondition (SpecAddresses).                 *)

HasAddress(a) == a \notin {Null, Undefined}

\* a request of the mounted History page
LiveRequests(ops) == {r \in historyReqs : r.live /\ r.op \in ops}

\* C23: a wallet is held only after a connect that found a used address;
\* balance reads and submissions run on a held wallet's handle; History
\* requests a listing only with a payment address, and when the wallet
\* answers no used address it records the error and requests nothing.  A
\* connect ends connected with an address, or failed with a message.
C23_NoOperationWithoutAddress ==
  /\ [](/\ wallet # NoWallet => walletInfo.set /\ HasAddress(walletInfo.address)
        /\ \A i \in 1..Len(balanceReqs) :
             /\ balanceReqs[i].wallet # NoWallet
             /\ balanceReqs[i].live => balanceReqs[i].wallet = wallet
        /\ \A t \in BagToSet(stakes) :
             t.wallet # NoWallet /\ (t.live => t.wallet = wallet)
        /\ LiveRequests({"fetchTransactions"}) # {} => HasAddress(paymentAddress)
        /\ (/\ route = "history" /\ ~HasAddress(paymentAddress)
            /\ \A r \in LiveRequests({"fetchAddresses"}) : r.pc # "getUsedAddresses")
             => /\ historyError # Null
                /\ handleErrorLog = "Failed to retrieve wallet addresses"
                /\ LiveRequests({"fetchAddresses", "fetchTransactions",
                                 "fetchDelegateHistory"}) = {})
  /\ [][lastConnect' # lastConnect
          => \/ /\ lastConnect'.pc = "connected"
                /\ wallet' = lastConnect'.handle
                /\ HasAddress(walletInfo'.address)
             \/ /\ lastConnect'.pc = "failed"
                /\ lastConnect'.message # Null
                /\ wallet' = wallet /\ walletInfo' = walletInfo]_vars

\* the wallet of a session with a submission in flight answers History's
\* address query with an empty list
C23_Witness ==
  /\ wallet # NoWallet /\ route = "history"
  /\ historyError = "No used addresses found"
  /\ stakes # EmptyBag

----------------------------------------------------------------------------
(* Properties of the balance refresh (SpecSession).                        *)

\* a handleStake call ends in this step: one in flight returns, or the
\* validation throws
StakeEnds ==
  \/ BagCardinality(stakes') < BagCardinality(stakes)
  \/ lastStake' # lastStake

\* C24: a handleStake that ends Succeeded calls getBalance on the wallet
\* it ran on, and on the mounted page that read is in flight behind the
\* balance preloader; a handleStake that ends Failed starts no balance
\* read.
C24_BalanceReadAfterSuccess ==
  [][StakeEnds =>
       IF lastStake'.pc = "Succeeded"
         THEN \E t \in BagToSet(stakes) :
                /\ stakes' = stakes (-) SetToBag({t})
                /\ t.pc = "submitTx"
                /\ lastStake'.balanceRead = t.wallet
                /\ t.wallet # NoWallet
                /\ t.live => /\ balanceReqs' = Append(balanceReqs,
                                   [wallet |-> t.wallet, live |-> TRUE])
                             /\ isLoadingBalance'
         ELSE /\ lastStake'.pc = "Failed"
              /\ lastStake'.balanceRead = NoWallet
              /\ UNCHANGED <<balanceReqs, isLoadingBalance, balance>>]_vars

\* a submission has succeeded on the mounted page and its balance read is
\* in flight
C24_Witness ==
  /\ route = "dash" /\ lastStake.pc = "Succeeded"
  /\ lastStake.balanceRead = wallet
  /\ isLoadingBalance /\ ~isStaking
  /\ balanceReqs = <<[wallet |-> wallet, live |-> TRUE]>>

----------------------------------------------------------------------------
(* C25: the detail requests of one page of the transaction history.        *)

\* the fetchTransactions calls whose detail requests are in flight
DetailRequests(reqs) ==
  {r \in reqs : r.op = "fetchTransactions" /\ r.pc = "details"}

\* the step ends the call r: its Promise.all has resolved or rejected
PageEnds(r) == r \in DetailRequests(historyReqs) /\ r \notin historyReqs'

\* C25: when the listing answers with summaries, the step issues one detail
\* request per summary, all in that step and at most ITEMS_PER_PAGE of
\* them, and no later step issues another; transactions changes to a page's
\* items only in the step in which the last detail request of that page
\* answers; a step in which a detail request fails ends the page's call and
\* leaves transactions and totalTransactions as they were.
C25_DetailFanOut ==
  /\ [](\A r \in DetailRequests(historyReqs) :
          r.awaited # {} /\ r.awaited \subseteq 1..Len(r.data))
  /\ [][/\ ListAnswered =>
            \A q \in DetailRequests(historyReqs') \ DetailRequests(historyReqs) :
              /\ q.awaited = 1..Len(q.data)
              /\ Len(q.data) = lastFetch'.count
              /\ Len(q.data) <= ITEMS_PER_PAGE
        /\ ~ListAnswered =>
            \A q \in DetailRequests(historyReqs') \ DetailRequests(historyReqs) :
              \E r \in DetailRequests(historyReqs) \ DetailRequests(historyReqs') :
                /\ q = [r EXCEPT !.awaited = q.awaited]
                /\ Cardinality(r.awaited \ q.awaited) = 1
                /\ q.awaited \subseteq r.awaited
        /\ transactions' # transactions =>
            \/ ListAnswered /\ transactions' = <<>>
            \/ \E r \in DetailRequests(historyReqs) :
                 /\ PageEnds(r)
                 /\ Cardinality(r.awaited) = 1
                 /\ lastFetch'.ok
                 /\ Len(transactions') = Len(r.data)
                 /\ \A k \in 1..Len(r.data) :
                      transactions'[k].txHash = r.data[k].tx_hash
        /\ (\E r \in DetailRequests(historyReqs) : PageEnds(r) /\ ~lastFetch'.ok) =>
            /\ transactions' = transactions
            /\ totalTransactions' = totalTransactions
            /\ historyError' = FetchRejected.message
            /\ ~isLoading']_vars

\* a full page is shown and two of the three detail requests of the last
\* page have answered
C25_Witness ==
  /\ Len(transactions) = ITEMS_PER_PAGE
  /\ \E r \in DetailRequests(historyReqs) :
       Len(r.data) = 3 /\ Cardinality(r.awaited) = 1

----------------------------------------------------------------------------
(* C26: the current epoch in the delegation records.                       *)

\* the epoch text ends with the annotation of the epoch
Annotated(text, epoch) ==
  LET note == <<" (Current: ">> \o NatToString(epoch) \o <<")">>
  IN  /\ Len(text) > Len(note)
      /\ SubSeq(text, Len(text) - Len(note) + 1, Len(text)) = note

\* C26: whenever History shows the delegation records and the current epoch
\* is known, the epoch text of every record contains the current epoch,
\* whichever of the epoch request and the delegation request answered first.
C26_EpochAnnotated ==
  (HistoryScreen = "History" /\ currentEpoch # NoEpoch) =>
    \A i \in 1..Len(delegateHistory) :
      Annotated(delegateHistory[i].epoch, currentEpoch)

----------------------------------------------------------------------------
(* C27: nothing in flight is cancelled.                                    *)

\* the step leaves the page (the Stake or History link) or the session
\* (Disconnect)
Leaving == route' # route

\* the wallet call the submission t awaits can resolve, and t goes on
StakeCanGoOn(t) ==
  CASE t.pc = "signData" ->
         ENABLED StakeStep(t, "build",
                           NewTransaction(t.wallet, PREDEFINED_ADDRESS, t.amount))
    [] t.pc = "build"    -> ENABLED StakeStep(t, "signTx", t.tx)
    [] t.pc = "signTx"   -> ENABLED StakeStep(t, "submitTx", t.tx)
    [] t.pc = "submitTx" -> \E h \in TxHashes : ENABLED StakeSucceeded(t, h)
    [] OTHER             -> FALSE

\* the call the History request r of a page that was left awaits can
\* answer
RequestCanGoOn(r) ==
  CASE r.pc = "getUsedAddresses" ->
         \E thrown \in Thrown : ENABLED AddressesFailed(r, thrown)
    [] r.pc = "list"             -> ENABLED NotFound(r)
    [] OTHER                     -> FALSE

\* C27: a disconnect or a navigation leaves every stake submission in
\* flight where it is, on the wallet it captured, and every History request
\* that has a call ahead; and whatever is in flight can take its next step
\* in every state, with the wallet cleared as well: a submission at signTx
\* or submitTx still holds its wallet handle and its call can answer.
C27_NoCancellation ==
  /\ [](/\ \A t \in BagToSet(stakes) :
             /\ t.wallet # NoWallet
             /\ wallet = NoWallet => ~t.live
             /\ ~t.live => StakeCanGoOn(t)
        /\ \A r \in historyReqs :
             /\ wallet = NoWallet => ~r.live
             /\ ~r.live => RequestCanGoOn(r))
  /\ [][Leaving =>
          /\ stakes' = OrphanedBag(stakes)
          /\ \A r \in historyReqs : CallsAhead(r) => Orphan(r) \in historyReqs']_vars

\* the wallet has been disconnected while a submission awaits signTx and a
\* transaction listing is in flight
C27_Witness ==
  /\ wallet = NoWallet /\ route = "home"
  /\ \E t \in BagToSet(stakes) :
       t.pc = "signTx" /\ t.calls = <<"signData", "build", "signTx">>
  /\ \E r \in historyReqs : r.op = "fetchTransactions" /\ r.pc = "list"

----------------------------------------------------------------------------
(* C28: the busy flags are released.                                       *)

\* C28: isStaking is only set while a submission of the mounted page is in
\* flight and isConnecting only while a connect of the mounted page is;
\* when every wallet call returns or throws, every submission in flight
\* ends Succeeded or Failed with isStaking false and every connect in
\* flight ends with isConnecting false.
C28_BusyFlagsReleased ==
  /\ [](isStaking => \E t \in BagToSet(stakes) : t.live)
  /\ [](isConnecting => \E i \in 1..Len(connects) : connects[i].live)
  /\ (BagCardinality(stakes) > 0) ~>
       (/\ BagCardinality(stakes) = 0 /\ ~isStaking
        /\ lastStake.pc \in {"Succeeded", "Failed"})
  /\ (Len(connects) > 0) ~>
       (/\ Len(connects) = 0 /\ ~isConnecting
        /\ lastConnect.pc \in {"connected", "failed"})

\* a submission has succeeded, the wallet was disconnected and a new
\* connect has failed: neither flag is set
C28_Witness ==
  /\ route = "home" /\ wallet = NoWallet
  /\ lastStake.pc = "Succeeded" /\ ~isStaking
  /\ lastConnect.pc = "failed" /\ ~isConnecting
  /\ homeError # Null

----------------------------------------------------------------------------
(* C29: the History page leaves its loading state.                         *)

\* C29: when every wallet and indexer request resolves, isLoading and
\* isDelegateHistoryLoading are eventually both false, so that the page
\* shows the history or the error.
C29_LeavesLoading == <>(~isLoading /\ ~isDelegateHistoryLoading)

----------------------------------------------------------------------------
(* C30: the selected page of the History page.                             *)

\* C30: in every reachable state the selected page is a page of the
\* history: 1 <= currentPage <= totalPages.
C30_PageInRange == 1 <= currentPage /\ currentPage <= totalPages

----------------------------------------------------------------------------
(* C31: what a stake submission changes of the form.                       *)

\* the step leaves the pool, the pool sets and the pool input as they are
PoolsKept ==
  UNCHANGED <<selectedPool, stakePools, filteredPools, poolSearch, isPoolListOpen>>

\* the step in which the submission t of the bag ends
EndOf(t) == stakes' = stakes (-) SetToBag({t}) /\ CopiesIn(t, stakes) > 0

\* the step in which a handleStake fails its validation
ValidationFails ==
  /\ stakes' = stakes /\ lastStake' # lastStake
  /\ lastStake'.pc = "Failed" /\ lastStake'.calls = <<>>

\* C31: the step in which a submission of the mounted page ends Succeeded
\* clears stakeAmount, sets the success message and keeps the selected pool
\* and the pool sets; the step in which one ends Failed, in its validation
\* or in a wallet call, keeps stakeAmount, the selected pool and the pool
\* sets, sets the error message and sets no success message; a submission
\* of a page that was left changes none of these; and from a state without
\* a wallet or without a selected pool no submission starts: no call is
\* made and no outcome is recorded.
C31_FormChangesOnlyOnSuccess ==
  [][/\ \A t \in BagToSet(stakes) :
          EndOf(t) =>
            IF ~t.live
              THEN /\ PoolsKept
                   /\ UNCHANGED <<stakeAmount, success, dashError>>
            ELSE IF lastStake'.pc = "Succeeded"
              THEN /\ PoolsKept
                   /\ stakeAmount' = <<>>
                   /\ success' = [pool |-> t.pool.name, amount |-> t.amount]
                   /\ dashError' = dashError
              ELSE /\ lastStake'.pc = "Failed"
                   /\ PoolsKept
                   /\ stakeAmount' = stakeAmount
                   /\ dashError' = lastStake'.error
                   /\ success' = NoSuccess
     /\ ValidationFails =>
          /\ PoolsKept
          /\ stakeAmount' = stakeAmount
          /\ dashError' = lastStake'.error
          /\ success' = NoSuccess
     /\ (wallet = NoWallet \/ selectedPool = NoPool) =>
          /\ BagCardinality(stakes') <= BagCardinality(stakes)
          /\ ~ValidationFails
          /\ (route' = route /\ \A t \in BagToSet(stakes) : ~EndOf(t)) =>
               UNCHANGED <<lastStake, success, isStaking>>]_vars

\* a submission has succeeded on the mounted page: the amount is cleared,
\* the message names the pool, which is still selected
C31_Witness ==
  /\ route = "dash" /\ lastStake.pc = "Succeeded"
  /\ stakeAmount = <<>>
  /\ selectedPool # NoPool
  /\ success = [pool |-> selectedPool.name, amount |-> lastStake.amount]
  /\ dashError = Null

====
